---- MODULE Spec2Model ----
(***************************************************************************)
(* State-machine model of the memory engine of ordpedia-auto-poster:       *)
(* mem0.memory.main.Memory (add, search, update, delete, delete_all and    *)
(* the private _add_to_vector_store, _add_raw_to_vector_store,             *)
(* _add_to_graph, _create_memory, _update_memory, _delete_memory).         *)
(*                                                                         *)
(* The language model, the embedder, the vector index, the graph store and *)
(* the history database are external: their answers are drawn from small   *)
(* sets, and each write to the vector index or to the history database may *)
(* fail.  One API call is followed step by step; inside an add call the   *)
(* vector unit and the graph unit interleave freely until the join.  Calls *)
(* made by several caller threads at once are followed statement by        *)
(* statement in the section on concurrent calls, and the /search_formatted *)
(* endpoint of src/main.py in a section of its own.                        *)
(***************************************************************************)
EXTENDS Integers, Sequences, FiniteSets, TLC

\* ------------------------------------------------------------------ bounds
\* uuid4 values handed out by _create_memory
MaxIds == 2
\* readings of datetime.now() by _create_memory and _update_memory
MaxClock == 3
\* facts the extraction call may return
MaxFacts == 1
\* facts the extraction call may return where the vector path is followed alone
MaxPipelineFacts == 2
\* decisions of one planner output
MaxDecisions == 2
\* caller threads running calls on the one engine at the same time
MaxCalls == 2

\* limit=5 of the candidate search
SearchLimit == 5
\* req.limit of a request that gives none (falsy, as None is)
NoLimit == 0
\* limit = req.limit if req.limit else 20
FormattedLimit == 20

\* ------------------------------------------------------------- value sets
NoVal == "None"
\* a timestamp key that is absent (readings of the clock start at 1)
NoTime == 0
Missing == "<missing>"
Texts == {"t1", "t2"}
Ids == 1..MaxIds
ScopeKeys == {"user_id", "agent_id", "run_id"}

RECURSIVE SeqsUpTo(_, _)
SeqsUpTo(S, n) ==
    IF n = 0 THEN {<<>>}
    ELSE LET shorter == SeqsUpTo(S, n - 1)
         IN  shorter \cup {Append(s, x) : s \in {t \in shorter : Len(t) = n - 1}, x \in S}

Range(s) == {s[i] : i \in DOMAIN s}

Take(s, n) == IF Len(s) <= n THEN s ELSE SubSeq(s, 1, n)

Min(S) == CHOOSE x \in S : \A y \in S : x <= y

RECURSIVE Ascending(_)
Ascending(S) == IF S = {} THEN <<>> ELSE <<Min(S)>> \o Ascending(S \ {Min(S)})

\* str(idx) of a non-negative integer below 100
Digits == <<"0", "1", "2", "3", "4", "5", "6", "7", "8", "9">>
Str(n) == IF n < 10 THEN Digits[n + 1] ELSE Digits[(n \div 10) + 1] \o Digits[(n % 10) + 1]

\* ------------------------------------------------------------ dictionaries
\* A payload / metadata dict: a key that is absent holds NoVal.
EmptyDict ==
    [data |-> NoVal, hash |-> NoVal, created_at |-> NoTime, updated_at |-> NoTime,
     user_id |-> NoVal, agent_id |-> NoVal, run_id |-> NoVal, extra |-> NoVal]

\* filters / identifier triples
EmptyScope == [user_id |-> NoVal, agent_id |-> NoVal, run_id |-> NoVal]

\* Python truthiness of a dict: {} is falsy
IsEmptyDict(d) == d = EmptyDict

NoRec == [vector |-> NoVal, payload |-> EmptyDict, present |-> FALSE]

\* Python values a future may hold
PyNone == [kind |-> "none", keys |-> {}, items |-> <<>>]
PyList(items) == [kind |-> "list", keys |-> {}, items |-> items]
PyDict(keys) == [kind |-> "dict", keys |-> keys, items |-> <<>>]
Absent == [kind |-> "absent", keys |-> {}, items |-> <<>>]

\* ------------------------------------------------- external pure providers
\* embedding_model.embed(text)
Embed(text) == "emb(" \o text \o ")"
\* hashlib.md5(data.encode()).hexdigest()
Md5(text) == "md5(" \o text \o ")"

\* ------------------------------------------------------------ vector index
\* scope_filter of search / list: every key of the filter equals the payload's
Matches(payload, flt) == \A k \in ScopeKeys : flt[k] # NoVal => payload[k] = flt[k]

\* vector_store.get(vector_id): the record, NoRec when the id is not stored
VsGet(vs, id) == IF id \in DOMAIN vs THEN vs[id] ELSE NoRec

\* vector_store.list(filters)[0]: ids of the stored records matching the filter
VsList(vs, flt) ==
    Ascending({i \in DOMAIN vs : vs[i].present /\ Matches(vs[i].payload, flt)})

\* vector_store.search(query, limit, filters): the nearest `limit` matching ids
VsSearch(vs, query, limit, flt) == Take(VsList(vs, flt), limit)

\* ---------------------------------------------------------- history ledger
HistoryEntry(memory_id, prev_value, new_value, event, created_at, updated_at, is_deleted) ==
    [memory_id |-> memory_id, prev_value |-> prev_value, new_value |-> new_value,
     event |-> event, created_at |-> created_at, updated_at |-> updated_at,
     is_deleted |-> is_deleted]

\* db.add_history(...): one more row at the end of the ledger
AddHistory(db, entry) == Append(db, entry)

\* db.get_history(memory_id)
GetHistory(db, memory_id) == SelectSeq(db, LAMBDA e : e.memory_id = memory_id)

\* ----------------------------------------------------------------- worlds
\* A world is everything a private helper reads and writes:
\*   vector_store, db      the two stores
\*   clock, nextId         datetime.now() readings and uuid4 values used so far
\*   vlog                  every write the vector index accepted, in order
\*   trace                 provider calls of the running unit, in order
\*   failed                a provider call has failed
Call(name, arg) == [call |-> name, arg |-> arg]

Traced(w, name, arg) == [w EXCEPT !.trace = Append(@, Call(name, arg))]

\* the embedding to store: the cached one, or a fresh embed call
WithEmbedding(w, data, existing_embeddings) ==
    IF data \in existing_embeddings THEN w ELSE Traced(w, "embed", data)

Outcome(w, metadata, ok, error, id) ==
    [w |-> w, metadata |-> metadata, ok |-> ok, error |-> error, id |-> id]

\* _create_memory without the history append
CreateMemoryNoHistory(w, data, existing_embeddings, metadata, fail) ==
    LET w1 == WithEmbedding(w, data, existing_embeddings)
        memory_id == w.nextId + 1
        now == w.clock + 1
        md == [metadata EXCEPT !.data = data, !.hash = Md5(data), !.created_at = now]
        shared == IF IsEmptyDict(metadata) THEN metadata ELSE md
        w2 == [Traced(w1, "vs.insert", memory_id) EXCEPT !.nextId = memory_id, !.clock = now]
        w3 == [w2 EXCEPT
                 !.vector_store = [i \in DOMAIN @ \cup {memory_id} |->
                     IF i = memory_id
                     THEN [vector |-> Embed(data), payload |-> md, present |-> TRUE]
                     ELSE @[i]],
                 !.vlog = Append(@, [id |-> memory_id, event |-> "ADD"])]
    IN  IF fail = "vs"
        THEN Outcome([w2 EXCEPT !.failed = TRUE], shared, FALSE, "ProviderError", memory_id)
        ELSE Outcome(w3, shared, TRUE, NoVal, memory_id)

\* _create_memory(data, existing_embeddings, metadata)
CreateMemory(w, data, existing_embeddings, metadata, fail) ==
    LET w1 == WithEmbedding(w, data, existing_embeddings)
        memory_id == w.nextId + 1
        now == w.clock + 1
        \* metadata = metadata or {}: a non-empty dict is the caller's own object
        md == [metadata EXCEPT !.data = data, !.hash = Md5(data), !.created_at = now]
        shared == IF IsEmptyDict(metadata) THEN metadata ELSE md
        w2 == [Traced(w1, "vs.insert", memory_id) EXCEPT !.nextId = memory_id, !.clock = now]
        w3 == [w2 EXCEPT
                 !.vector_store = [i \in DOMAIN @ \cup {memory_id} |->
                     IF i = memory_id
                     THEN [vector |-> Embed(data), payload |-> md, present |-> TRUE]
                     ELSE @[i]],
                 !.vlog = Append(@, [id |-> memory_id, event |-> "ADD"])]
        w4 == Traced(w3, "db.add_history", memory_id)
        w5 == [w4 EXCEPT !.db = AddHistory(@,
                 HistoryEntry(memory_id, NoVal, data, "ADD", now, NoTime, 0))]
    IN  IF fail = "vs"
        THEN Outcome([w2 EXCEPT !.failed = TRUE], shared, FALSE, "ProviderError", memory_id)
        ELSE IF fail = "db"
        THEN Outcome([w4 EXCEPT !.failed = TRUE], shared, FALSE, "ProviderError", memory_id)
        ELSE Outcome(w5, shared, TRUE, NoVal, memory_id)

\* the new payload taking created_at and the scope from the caller's metadata
NewMetadataOfCaller(metadata, old, data, now) ==
    [metadata EXCEPT !.data = data, !.hash = Md5(data), !.updated_at = now]

\* the new payload keeping the hash the record had
NewMetadataStaleHash(metadata, old, data, now) ==
    [metadata EXCEPT
       !.data = data, !.hash = old.hash,
       !.created_at = old.created_at, !.updated_at = now,
       !.user_id = IF old.user_id # NoVal THEN old.user_id ELSE @,
       !.agent_id = IF old.agent_id # NoVal THEN old.agent_id ELSE @,
       !.run_id = IF old.run_id # NoVal THEN old.run_id ELSE @]

\* new_metadata = metadata or {}, then lines 586-596: data, hash and updated_at are
\* new; created_at and the scope keys the record has are the record's
NewMetadata(metadata, old, data, now) ==
    [metadata EXCEPT
       !.data = data, !.hash = Md5(data),
       !.created_at = old.created_at, !.updated_at = now,
       !.user_id = IF old.user_id # NoVal THEN old.user_id ELSE @,
       !.agent_id = IF old.agent_id # NoVal THEN old.agent_id ELSE @,
       !.run_id = IF old.run_id # NoVal THEN old.run_id ELSE @]

\* _update_memory writing whether or not the record is stored
UpdateMemoryUnchecked(w, memory_id, data, existing_embeddings, metadata, fail) ==
    LET w1 == Traced(w, "vs.get", memory_id)
        existing_memory == VsGet(w.vector_store, memory_id)
        old == existing_memory.payload
        prev_value == old.data
        now == w.clock + 1
        new_metadata == NewMetadata(metadata, old, data, now)
        shared == IF IsEmptyDict(metadata) THEN metadata ELSE new_metadata
        w2 == [WithEmbedding(w1, data, existing_embeddings) EXCEPT !.clock = now]
        w3 == Traced(w2, "vs.update", memory_id)
        w4 == [w3 EXCEPT
                 !.vector_store[memory_id] =
                     [vector |-> Embed(data), payload |-> new_metadata, present |-> TRUE],
                 !.vlog = Append(@, [id |-> memory_id, event |-> "UPDATE"])]
        w5 == Traced(w4, "db.add_history", memory_id)
        w6 == [w5 EXCEPT !.db = AddHistory(@,
                 HistoryEntry(memory_id, prev_value, data, "UPDATE",
                              new_metadata.created_at, new_metadata.updated_at, 0))]
    IN  IF fail = "vs"
        THEN Outcome([w3 EXCEPT !.failed = TRUE], shared, FALSE, "ProviderError", memory_id)
        ELSE IF fail = "db"
        THEN Outcome([w5 EXCEPT !.failed = TRUE], shared, FALSE, "ProviderError", memory_id)
        ELSE Outcome(w6, shared, TRUE, NoVal, memory_id)

\* _update_memory(memory_id, data, existing_embeddings, metadata)
UpdateMemory(w, memory_id, data, existing_embeddings, metadata, fail) ==
    LET w1 == Traced(w, "vs.get", memory_id)
        existing_memory == VsGet(w.vector_store, memory_id)
        old == existing_memory.payload
        prev_value == old.data
        now == w.clock + 1
        new_metadata == NewMetadata(metadata, old, data, now)
        shared == IF IsEmptyDict(metadata) THEN metadata ELSE new_metadata
        w2 == [WithEmbedding(w1, data, existing_embeddings) EXCEPT !.clock = now]
        w3 == Traced(w2, "vs.update", memory_id)
        w4 == [w3 EXCEPT
                 !.vector_store[memory_id] =
                     [vector |-> Embed(data), payload |-> new_metadata, present |-> TRUE],
                 !.vlog = Append(@, [id |-> memory_id, event |-> "UPDATE"])]
        w5 == Traced(w4, "db.add_history", memory_id)
        w6 == [w5 EXCEPT !.db = AddHistory(@,
                 HistoryEntry(memory_id, prev_value, data, "UPDATE",
                              new_metadata.created_at, new_metadata.updated_at, 0))]
    IN  IF ~existing_memory.present
        THEN Outcome(w1, metadata, FALSE, "MemoryNotFound", memory_id)
        ELSE IF fail = "vs"
        THEN Outcome([w3 EXCEPT !.failed = TRUE], shared, FALSE, "ProviderError", memory_id)
        ELSE IF fail = "db"
        THEN Outcome([w5 EXCEPT !.failed = TRUE], shared, FALSE, "ProviderError", memory_id)
        ELSE Outcome(w6, shared, TRUE, NoVal, memory_id)

\* _delete_memory deleting whether or not the record is stored
DeleteMemoryUnchecked(w, memory_id, fail) ==
    LET w1 == Traced(w, "vs.get", memory_id)
        existing_memory == VsGet(w.vector_store, memory_id)
        prev_value == existing_memory.payload.data
        w2 == Traced(w1, "vs.delete", memory_id)
        w3 == [w2 EXCEPT
                 !.vector_store[memory_id] = NoRec,
                 !.vlog = Append(@, [id |-> memory_id, event |-> "DELETE"])]
        w4 == Traced(w3, "db.add_history", memory_id)
        w5 == [w4 EXCEPT !.db = AddHistory(@,
                 HistoryEntry(memory_id, prev_value, NoVal, "DELETE", NoTime, NoTime, 1))]
    IN  IF fail = "vs"
        THEN Outcome([w2 EXCEPT !.failed = TRUE], EmptyDict, FALSE, "ProviderError", memory_id)
        ELSE IF fail = "db"
        THEN Outcome([w4 EXCEPT !.failed = TRUE], EmptyDict, FALSE, "ProviderError", memory_id)
        ELSE Outcome(w5, EmptyDict, TRUE, NoVal, memory_id)

\* _delete_memory(memory_id)
DeleteMemory(w, memory_id, fail) ==
    LET w1 == Traced(w, "vs.get", memory_id)
        existing_memory == VsGet(w.vector_store, memory_id)
        prev_value == existing_memory.payload.data
        w2 == Traced(w1, "vs.delete", memory_id)
        w3 == [w2 EXCEPT
                 !.vector_store[memory_id] = NoRec,
                 !.vlog = Append(@, [id |-> memory_id, event |-> "DELETE"])]
        w4 == Traced(w3, "db.add_history", memory_id)
        w5 == [w4 EXCEPT !.db = AddHistory(@,
                 HistoryEntry(memory_id, prev_value, NoVal, "DELETE", NoTime, NoTime, 1))]
    IN  IF ~existing_memory.present
        THEN Outcome(w1, EmptyDict, FALSE, "MemoryNotFound", memory_id)
        ELSE IF fail = "vs"
        THEN Outcome([w2 EXCEPT !.failed = TRUE], EmptyDict, FALSE, "ProviderError", memory_id)
        ELSE IF fail = "db"
        THEN Outcome([w4 EXCEPT !.failed = TRUE], EmptyDict, FALSE, "ProviderError", memory_id)
        ELSE Outcome(w5, EmptyDict, TRUE, NoVal, memory_id)

\* -------------------------------------------------------------------- state
VARIABLES
    vector_store,            \* id -> [vector, payload, present]
    db,                      \* history ledger, oldest first
    enable_graph,            \* Memory.enable_graph
    graph,                   \* self.graph.user_id / agent_id / run_id
    calls,                   \* the calls running concurrently, one per caller thread
    clock, nextId,           \* datetime.now() readings, uuid4 values used
    vlog, failed,            \* accepted index writes; a provider call has failed
    pc,                      \* "idle" | "dispatched" | "returned"
    args,                    \* arguments of the running (or last) call
    vpc, gpc,                \* position of the vector unit and of the graph unit
    metadata, filters,       \* the two dicts add builds and hands to its units
    new_retrieved_facts, new_message_embeddings,
    retrieved_old_memory, temp_uuid_mapping,
    applied,                 \* decisions (or raw messages) consumed so far
    returned_memories,
    vtrace, gtrace,          \* provider calls of each unit, in order
    vout, gout,              \* outcome of each future
    notes,                   \* what happened inside the running (or last) call
    result                   \* what the last call gave its caller

stores == <<vector_store, db, clock, nextId, vlog, failed>>
locals == <<new_retrieved_facts, new_message_embeddings, retrieved_old_memory,
            temp_uuid_mapping, applied, returned_memories>>
vars == <<vector_store, db, enable_graph, graph, calls, clock, nextId, vlog, failed, pc, args,
          vpc, gpc, metadata, filters, new_retrieved_facts, new_message_embeddings,
          retrieved_old_memory, temp_uuid_mapping, applied, returned_memories,
          vtrace, gtrace, vout, gout, notes, result>>

World ==
    [vector_store |-> vector_store, db |-> db, clock |-> clock, nextId |-> nextId,
     vlog |-> vlog, trace |-> vtrace, failed |-> failed]

FreshWorld == [World EXCEPT !.trace = <<>>]

SetWorld(w) ==
    /\ vector_store' = w.vector_store
    /\ db' = w.db
    /\ clock' = w.clock
    /\ nextId' = w.nextId
    /\ vlog' = w.vlog
    /\ vtrace' = w.trace
    /\ failed' = w.failed

NoOut == [status |-> "none", error |-> NoVal, value |-> NoVal]
Raised(error) == [status |-> "raise", error |-> error, value |-> NoVal]
Returned(value) == [status |-> "ok", error |-> NoVal, value |-> value]

NoArgs ==
    [op |-> "none", user_id |-> NoVal, agent_id |-> NoVal, run_id |-> NoVal,
     filters |-> EmptyScope, metadata |-> EmptyDict,
     messages |-> [kind |-> "list", content |-> NoVal, items |-> <<>>],
     skip_extraction |-> FALSE, store_mode |-> "both", memory_id |-> NoVal,
     data |-> NoVal, query |-> NoVal, limit |-> NoLimit]

ResetLocals ==
    /\ new_retrieved_facts' = <<>>
    /\ new_message_embeddings' = {}
    /\ retrieved_old_memory' = <<>>
    /\ temp_uuid_mapping' = <<>>
    /\ applied' = 0
    /\ returned_memories' = <<>>

\* a call that never dispatches a unit
ResetUnits ==
    /\ vpc' = "none" /\ gpc' = "none"
    /\ vout' = NoOut /\ gout' = NoOut
    /\ metadata' = EmptyDict /\ filters' = EmptyScope
    /\ ResetLocals

\* the caller threads
Procs == 1..MaxCalls

\* no id yet
NoId == 0

\* a caller thread between two calls
IdleCall ==
    [op |-> "none", pc |-> "idle", scope |-> EmptyScope, memory_id |-> NoId,
     data |-> NoVal, existing_memory |-> NoRec, created_at |-> NoTime,
     seen |-> EmptyScope, error |-> NoVal]

\* Memory.__init__ (lines 29-50): empty stores; enable_graph is set by the caller
Constructed ==
    /\ graph = EmptyScope
    /\ calls = [p \in Procs |-> IdleCall]
    /\ vector_store = [i \in Ids |-> NoRec]
    /\ db = <<>>
    /\ clock = 0 /\ nextId = 0
    /\ vlog = <<>> /\ failed = FALSE
    /\ pc = "idle"
    /\ args = NoArgs
    /\ vpc = "none" /\ gpc = "none"
    /\ metadata = EmptyDict /\ filters = EmptyScope
    /\ new_retrieved_facts = <<>> /\ new_message_embeddings = {}
    /\ retrieved_old_memory = <<>> /\ temp_uuid_mapping = <<>>
    /\ applied = 0 /\ returned_memories = <<>>
    /\ vtrace = <<>> /\ gtrace = <<>>
    /\ vout = NoOut /\ gout = NoOut
    /\ notes = {}
    /\ result = NoOut

\* The service of src/main.py configures no graph store: enable_graph stays False.
Init == Constructed /\ enable_graph = FALSE

\* The engine constructed with or without a graph store.
InitAdd == Constructed /\ enable_graph \in BOOLEAN

\* ------------------------------------------------------------------- inputs
\* identifier triples a caller passes (the HTTP layer passes agent_id "ordpedia")
IdInputs ==
    { EmptyScope,
      [EmptyScope EXCEPT !.agent_id = "ordpedia", !.run_id = "r1"],
      [EmptyScope EXCEPT !.agent_id = "ordpedia", !.run_id = "r2"] }

\* the filters argument of add and search: absent, or a scope of its own
FilterInputs == {EmptyScope, [EmptyScope EXCEPT !.user_id = "u1"]}

\* the metadata argument of add: absent, or one extra attribute
ScopeArgs(ids, fparam, mparam) == [ids |-> ids, fparam |-> fparam, mparam |-> mparam]

\* the identifiers, filters and metadata of the add calls explored
AddScopeInputs ==
    { ScopeArgs(EmptyScope, EmptyScope, EmptyDict),
      ScopeArgs([EmptyScope EXCEPT !.agent_id = "ordpedia", !.run_id = "r1"],
                EmptyScope, EmptyDict),
      ScopeArgs([EmptyScope EXCEPT !.agent_id = "ordpedia", !.run_id = "r2"],
                EmptyScope, [EmptyDict EXCEPT !.extra = "x"]),
      ScopeArgs(EmptyScope, [EmptyScope EXCEPT !.user_id = "u1"], EmptyDict) }

Msg(role, content) == [role |-> role, content |-> content]

\* the messages argument of add: a string, or role-tagged fragments
StrMessages(content) == [kind |-> "str", content |-> content, items |-> <<>>]
ListMessages(items) == [kind |-> "list", content |-> NoVal, items |-> items]
\* the add calls explored: a string goes through extraction, fragments are stored raw
\* or handed to the graph
ModeArgs(messages, skip_extraction, store_mode) ==
    [messages |-> messages, skip_extraction |-> skip_extraction, store_mode |-> store_mode]

Fragments == ListMessages(<<Msg("system", "t2"), Msg("user", "t1")>>)

AddModeInputs ==
    { ModeArgs(StrMessages("t1"), FALSE, "both"),
      ModeArgs(Fragments, TRUE, "both"),
      ModeArgs(StrMessages("t2"), TRUE, "vector"),
      ModeArgs(Fragments, TRUE, "vector"),
      ModeArgs(Fragments, TRUE, "graph"),
      ModeArgs(Fragments, FALSE, "graph") }

\* the add calls explored with a graph store
GraphScopeInputs ==
    { ScopeArgs(EmptyScope, EmptyScope, EmptyDict),
      ScopeArgs([EmptyScope EXCEPT !.agent_id = "ordpedia", !.run_id = "r1"],
                EmptyScope, EmptyDict) }

\* a write to the vector index or to the ledger that fails, if any
Fails == {"none", "vs", "db"}

\* The engine is followed up to the return of the first call in which a provider
\* call fails, and at most one provider call fails.
MayFail(fail) == fail = "none" \/ ~failed

\* ---------------------------------------------------------------- Memory.add
\* the scope check left out
HasScopeUnchecked(flt) == TRUE

\* any(key in filters for key in ("user_id", "agent_id", "run_id"))
HasScope(flt) == \E k \in ScopeKeys : flt[k] # NoVal

\* the run identifier left out of the scope
WithIdsNoRun(d, ids) ==
    [d EXCEPT !.user_id = IF ids.user_id # NoVal THEN ids.user_id ELSE @,
              !.agent_id = IF ids.agent_id # NoVal THEN ids.agent_id ELSE @]

\* filters[k] = metadata[k] = value, for each identifier supplied
WithIds(d, ids) ==
    [d EXCEPT !.user_id = IF ids.user_id # NoVal THEN ids.user_id ELSE @,
              !.agent_id = IF ids.agent_id # NoVal THEN ids.agent_id ELSE @,
              !.run_id = IF ids.run_id # NoVal THEN ids.run_id ELSE @]

\* if isinstance(messages, str): messages = [{"role": "user", "content": messages}]
Normalize(messages) ==
    IF messages.kind = "str" THEN <<Msg("user", messages.content)>> ELSE messages.items

\* the refusal with store_mode "both" left out
ConfigRefusedGraphOnly(skip_extraction, store_mode) ==
    skip_extraction /\ store_mode = "graph"

\* skip_extraction with a graph-inclusive store_mode is refused
ConfigRefused(skip_extraction, store_mode) ==
    skip_extraction /\ store_mode \in {"both", "graph"}

AddArgs(ids, fparam, mparam, messages, skip_extraction, store_mode) ==
    [NoArgs EXCEPT !.op = "add", !.user_id = ids.user_id, !.agent_id = ids.agent_id,
                   !.run_id = ids.run_id, !.filters = fparam, !.metadata = mparam,
                   !.messages = messages, !.skip_extraction = skip_extraction,
                   !.store_mode = store_mode]

\* the vector unit submitted whatever the store_mode
VectorModeAny(store_mode) == TRUE

\* if store_mode in ["both", "vector"] (line 110)
VectorMode(store_mode) == store_mode \in {"both", "vector"}

\* add(...) up to the submission of its units (lines 81-120)
AddCall(ids, fparam, mparam, messages, skip_extraction, store_mode) ==
    /\ pc = "idle" /\ ~failed
    /\ args' = AddArgs(ids, fparam, mparam, messages, skip_extraction, store_mode)
    /\ notes' = {}
    /\ vtrace' = <<>> /\ gtrace' = <<>>
    /\ UNCHANGED <<vector_store, db, enable_graph, calls, graph, clock, nextId, vlog, failed>>
    /\ IF ConfigRefused(skip_extraction, store_mode)
       THEN /\ result' = Raised("ConfigurationError")
            /\ pc' = "returned"
            /\ ResetUnits
       ELSE IF ~HasScope(WithIds(fparam, ids))
       THEN /\ result' = Raised("ScopeError")
            /\ pc' = "returned"
            /\ ResetUnits
       ELSE /\ skip_extraction => Len(Normalize(messages)) <= MaxIds - nextId
            /\ skip_extraction => Len(Normalize(messages)) <= MaxClock - clock
            /\ result' = NoOut
            /\ pc' = "dispatched"
            /\ metadata' = WithIds(mparam, ids)
            /\ filters' = WithIds(fparam, ids)
            /\ vpc' = IF VectorMode(store_mode)
                      THEN (IF skip_extraction THEN "raw" ELSE "extract")
                      ELSE "none"
            /\ gpc' = IF store_mode \in {"both", "graph"} /\ enable_graph
                      THEN "run" ELSE "none"
            /\ vout' = NoOut /\ gout' = NoOut
            /\ ResetLocals

\* ------------------------------------------------------ _add_to_vector_store
\* what the extraction call may answer
ExtractionResponses ==
    {[kind |-> k, facts |-> <<>>] : k \in {"unparsable", "nokey"}}
    \cup {[kind |-> "facts", facts |-> f] : f \in SeqsUpTo(Texts, MaxFacts)}

\* json.loads(response)["facts"], and [] when that raises (lines 173-177)
ParseFacts(response) == IF response.kind = "facts" THEN response.facts ELSE <<>>

\* the extraction call and its parse (lines 157-177)
Extract(response) ==
    /\ pc = "dispatched" /\ vpc = "extract"
    /\ vtrace' = Append(vtrace, Call("llm.generate_response", "extract"))
    /\ new_retrieved_facts' = ParseFacts(response)
    /\ notes' = IF response.kind = "facts" THEN notes ELSE notes \cup {"extraction_unparsable"}
    /\ vpc' = "retrieve"
    /\ UNCHANGED <<vector_store, db, enable_graph, calls, graph, clock, nextId, vlog, failed,
                   pc, args, gpc, metadata, filters, new_message_embeddings,
                   retrieved_old_memory, temp_uuid_mapping, applied, returned_memories,
                   gtrace, vout, gout, result>>

\* the candidates of one fact: {"id": mem.id, "text": mem.payload["data"]}
Candidates(vs, found) == [i \in DOMAIN found |-> [id |-> found[i], text |-> vs[found[i]].payload.data]]

\* the retrieval loop with a search that drops the scope filter
RECURSIVE RetrievalUnscoped(_, _, _)
RetrievalUnscoped(w, facts, flt) ==
    IF facts = <<>>
    THEN [w |-> w, retrieved |-> <<>>, embeddings |-> {}]
    ELSE LET new_mem == facts[1]
             w1 == Traced(Traced(w, "embed", new_mem), "vs.search", new_mem)
             existing_memories ==
                 VsSearch(w.vector_store, Embed(new_mem), SearchLimit, EmptyScope)
             rest == RetrievalUnscoped(w1, Tail(facts), flt)
         IN  [w |-> rest.w,
              retrieved |-> Candidates(w.vector_store, existing_memories) \o rest.retrieved,
              embeddings |-> {new_mem} \cup rest.embeddings]

\* the retrieval loop left after its first fact
RetrievalFirstOnly(w, facts, flt) ==
    IF facts = <<>>
    THEN [w |-> w, retrieved |-> <<>>, embeddings |-> {}]
    ELSE LET new_mem == facts[1]
             w1 == Traced(Traced(w, "embed", new_mem), "vs.search", new_mem)
             existing_memories ==
                 VsSearch(w.vector_store, Embed(new_mem), SearchLimit, flt)
         IN  [w |-> w1,
              retrieved |-> Candidates(w.vector_store, existing_memories),
              embeddings |-> {new_mem}]

\* the retrieval loop (lines 179-190): embed each fact, search within the scope
RECURSIVE Retrieval(_, _, _)
Retrieval(w, facts, flt) ==
    IF facts = <<>>
    THEN [w |-> w, retrieved |-> <<>>, embeddings |-> {}]
    ELSE LET new_mem == facts[1]
             w1 == Traced(Traced(w, "embed", new_mem), "vs.search", new_mem)
             existing_memories ==
                 VsSearch(w.vector_store, Embed(new_mem), SearchLimit, flt)
             rest == Retrieval(w1, Tail(facts), flt)
         IN  [w |-> rest.w,
              retrieved |-> Candidates(w.vector_store, existing_memories) \o rest.retrieved,
              embeddings |-> {new_mem} \cup rest.embeddings]

Handles(n) == {Str(i - 1) : i \in 1..n}

\* temp_uuid_mapping[str(idx)] = item["id"] (lines 195-197)
TempUuidMapping(retrieved) ==
    [h \in Handles(Len(retrieved)) |->
        retrieved[CHOOSE i \in 1..Len(retrieved) : Str(i - 1) = h].id]

\* retrieved_old_memory[idx]["id"] = str(idx) (line 198)
Remapped(retrieved) == [i \in DOMAIN retrieved |-> [retrieved[i] EXCEPT !.id = Str(i - 1)]]

Retrieve ==
    /\ pc = "dispatched" /\ vpc = "retrieve"
    /\ LET r == Retrieval(World, new_retrieved_facts, filters)
       IN  /\ SetWorld(r.w)
           /\ new_message_embeddings' = r.embeddings
           /\ temp_uuid_mapping' = TempUuidMapping(r.retrieved)
           /\ retrieved_old_memory' = Remapped(r.retrieved)
    /\ vpc' = "plan"
    /\ UNCHANGED <<enable_graph, calls, graph, pc, args, gpc, metadata, filters,
                   new_retrieved_facts, applied, returned_memories, gtrace, vout, gout,
                   notes, result>>

\* what the planner call may answer, besides a list of decisions
PlannerResponses == {"unparsable", "nokey", "list"}

\* the planner call and json.loads of its answer (lines 200-212)
Plan(response) ==
    /\ pc = "dispatched" /\ vpc = "plan"
    /\ vtrace' = Append(vtrace, Call("llm.generate_response", "plan"))
    /\ CASE response = "unparsable" ->
              \* json.loads raises outside every try
              /\ vpc' = "raised"
              /\ vout' = Raised("JSONDecodeError")
              /\ notes' = notes \cup {"planner_unparsable"}
              /\ ResetLocals
         [] response = "nokey" ->
              \* new_memories_with_actions["memory"] raises inside the outer try
              /\ vpc' = "done"
              /\ vout' = Returned(PyList(<<>>))
              /\ notes' = notes \cup {"planner_nokey"}
              /\ ResetLocals
         [] OTHER ->
              /\ vpc' = "apply"
              /\ UNCHANGED <<vout, notes, locals>>
    /\ UNCHANGED <<vector_store, db, enable_graph, calls, graph, clock, nextId, vlog, failed,
                   pc, args, gpc, metadata, filters, gtrace, gout, result>>

Decision(event, id, text, old_memory) ==
    [event |-> event, id |-> id, text |-> text, old_memory |-> old_memory]

\* a handle no call of this size hands out
UnknownHandle == "99"

\* the decisions a planner output may hold; a key that is absent is Missing
Decisions ==
    { Decision("ADD", Missing, "t1", Missing),
      Decision("UPDATE", "0", "t2", "old"),
      Decision("UPDATE", "0", "t1", Missing),
      Decision("UPDATE", UnknownHandle, "t2", "old"),
      Decision("DELETE", "0", "t1", Missing),
      Decision("DELETE", "0", Missing, Missing),
      Decision("NONE", Missing, "t1", Missing),
      Decision(Missing, Missing, "t1", Missing) }

ReturnedMemory(id, memory, event, previous_memory) ==
    [id |-> id, memory |-> memory, event |-> event, previous_memory |-> previous_memory]

Applied(w, md, returned, new_notes) ==
    [w |-> w, metadata |-> md, returned |-> returned, notes |-> new_notes]

\* a NONE decision reported among the returned memories
NoopForMemoryReported(w, md, returned, resp) ==
    Applied(w, md, Append(returned, ReturnedMemory(Missing, resp.text, "NONE", Missing)), {})

\* elif resp["event"] == "NONE": logging.info("NOOP for Memory.") (lines 250-251);
\* an event that is none of the four names falls through the chain the same way
NoopForMemory(w, md, returned, resp) == Applied(w, md, returned, {})

\* one pass of the loop body, lines 213-253: every exception is logged and dropped
ApplyOne(w, md, mapping, embeddings, returned, resp, fail) ==
    LET skip(note) == Applied(w, md, returned, {note})
        after(o) == IF o.error = "MemoryNotFound" THEN {"absent_target"}
                    ELSE IF fail = "db" THEN {"history_failed_after_write"}
                    ELSE {"write_failed"}
    IN  CASE resp.event = Missing -> skip("decision_missing_key")
          [] resp.event = "ADD" ->
               IF resp.text = Missing THEN skip("decision_missing_key")
               ELSE LET o == CreateMemory(w, resp.text, embeddings, md, fail)
                    IN  IF o.ok
                        THEN Applied(o.w, o.metadata,
                                 Append(returned,
                                     ReturnedMemory(o.id, resp.text, "ADD", Missing)), {})
                        ELSE Applied(o.w, o.metadata, returned, after(o))
          [] resp.event = "UPDATE" ->
               IF resp.id = Missing THEN skip("decision_missing_key")
               ELSE IF resp.id \notin DOMAIN mapping THEN skip("unknown_handle")
               ELSE IF resp.text = Missing THEN skip("decision_missing_key")
               ELSE LET o == UpdateMemory(w, mapping[resp.id], resp.text, embeddings, md, fail)
                    IN  IF ~o.ok THEN Applied(o.w, o.metadata, returned, after(o))
                        ELSE IF resp.old_memory = Missing
                        THEN Applied(o.w, o.metadata, returned, {"decision_missing_key"})
                        ELSE Applied(o.w, o.metadata,
                                 Append(returned,
                                     ReturnedMemory(mapping[resp.id], resp.text, "UPDATE",
                                                    resp.old_memory)), {})
          [] resp.event = "DELETE" ->
               IF resp.id = Missing THEN skip("decision_missing_key")
               ELSE IF resp.id \notin DOMAIN mapping THEN skip("unknown_handle")
               ELSE LET o == DeleteMemory(w, mapping[resp.id], fail)
                    IN  IF ~o.ok THEN Applied(o.w, md, returned, after(o))
                        ELSE IF resp.text = Missing
                        THEN Applied(o.w, md, returned, {"decision_missing_key"})
                        ELSE Applied(o.w, md,
                                 Append(returned,
                                     ReturnedMemory(mapping[resp.id], resp.text, "DELETE",
                                                    Missing)), {})
          [] OTHER -> NoopForMemory(w, md, returned, resp)

\* a decision that would take an id or a clock reading the bounds do not leave
WithinBounds(resp) ==
    /\ (resp.event = "ADD" /\ resp.text # Missing) => nextId < MaxIds /\ clock < MaxClock
    /\ resp.event = "UPDATE" => clock < MaxClock

\* the event names a decision may carry, as notes of the call
DecisionNotes == {"decided_" \o e : e \in {"ADD", "UPDATE", "DELETE", "NONE", Missing}}

\* the next decision of new_memories_with_actions["memory"] is applied
ApplyDecision(resp, fail) ==
    /\ pc = "dispatched" /\ vpc = "apply"
    /\ applied < MaxDecisions
    /\ WithinBounds(resp)
    /\ MayFail(fail)
    /\ LET a == ApplyOne(World, metadata, temp_uuid_mapping, new_message_embeddings,
                         returned_memories, resp, fail)
       IN  /\ SetWorld(a.w)
           /\ metadata' = a.metadata
           /\ returned_memories' = a.returned
           /\ notes' = notes \cup a.notes \cup {"decided_" \o resp.event}
    /\ applied' = applied + 1
    /\ UNCHANGED <<enable_graph, calls, graph, pc, args, vpc, gpc, filters, new_retrieved_facts,
                   new_message_embeddings, retrieved_old_memory, temp_uuid_mapping,
                   gtrace, vout, gout, result>>

\* the list is exhausted: return returned_memories (lines 257-259)
VectorReturn ==
    /\ pc = "dispatched" /\ vpc = "apply"
    /\ vpc' = "done"
    /\ vout' = Returned(PyList(returned_memories))
    /\ ResetLocals
    /\ UNCHANGED <<vector_store, db, enable_graph, calls, graph, clock, nextId, vlog, failed,
                   pc, args, gpc, metadata, filters, vtrace, gtrace, gout, notes, result>>

\* -------------------------------------------------- _add_raw_to_vector_store
\* the loop passing over a message whose text is already stored
RawStepDedup(fail) ==
    /\ pc = "dispatched" /\ vpc = "raw"
    /\ applied < Len(Normalize(args.messages))
    /\ MayFail(fail)
    /\ LET content == Normalize(args.messages)[applied + 1].content
           w1 == Traced(World, "embed", content)
           known == \E i \in Ids : /\ vector_store[i].present
                                    /\ vector_store[i].payload.data = content
           o == IF known THEN Outcome(w1, metadata, TRUE, NoVal, NoVal)
                ELSE CreateMemory(w1, content, {content}, metadata, fail)
       IN  /\ SetWorld(o.w)
           /\ metadata' = o.metadata
           /\ IF o.ok
              THEN /\ returned_memories' =
                          IF known THEN returned_memories
                          ELSE Append(returned_memories,
                                      ReturnedMemory(o.id, content, "ADD", Missing))
                   /\ applied' = applied + 1
                   /\ UNCHANGED <<vpc, vout, new_retrieved_facts, new_message_embeddings,
                                  retrieved_old_memory, temp_uuid_mapping>>
              ELSE /\ vpc' = "raised"
                   /\ vout' = Raised(o.error)
                   /\ ResetLocals
           /\ notes' = IF o.ok THEN notes
                       ELSE IF fail = "db" THEN notes \cup {"history_failed_after_write"}
                       ELSE notes \cup {"write_failed"}
    /\ UNCHANGED <<enable_graph, calls, graph, pc, args, gpc, filters, gtrace, gout, result>>

\* one message of the loop, lines 268-279: nothing here catches an exception
RawStep(fail) ==
    /\ pc = "dispatched" /\ vpc = "raw"
    /\ applied < Len(Normalize(args.messages))
    /\ MayFail(fail)
    /\ LET content == Normalize(args.messages)[applied + 1].content
           w1 == Traced(World, "embed", content)
           o == CreateMemory(w1, content, {content}, metadata, fail)
       IN  /\ SetWorld(o.w)
           /\ metadata' = o.metadata
           /\ IF o.ok
              THEN /\ returned_memories' =
                          Append(returned_memories,
                                 ReturnedMemory(o.id, content, "ADD", Missing))
                   /\ applied' = applied + 1
                   /\ UNCHANGED <<vpc, vout, new_retrieved_facts, new_message_embeddings,
                                  retrieved_old_memory, temp_uuid_mapping>>
              ELSE /\ vpc' = "raised"
                   /\ vout' = Raised(o.error)
                   /\ ResetLocals
           /\ notes' = IF o.ok THEN notes
                       ELSE IF fail = "db" THEN notes \cup {"history_failed_after_write"}
                       ELSE notes \cup {"write_failed"}
    /\ UNCHANGED <<enable_graph, calls, graph, pc, args, gpc, filters, gtrace, gout, result>>

RawReturn ==
    /\ pc = "dispatched" /\ vpc = "raw"
    /\ applied = Len(Normalize(args.messages))
    /\ vpc' = "done"
    /\ vout' = Returned(PyList(returned_memories))
    /\ ResetLocals
    /\ UNCHANGED <<vector_store, db, enable_graph, calls, graph, clock, nextId, vlog, failed,
                   pc, args, gpc, metadata, filters, vtrace, gtrace, gout, notes, result>>

\* ------------------------------------------------------------- _add_to_graph
Relation == ReturnedMemory("rel", Missing, Missing, Missing)

\* what graph.add may return
GraphReturns == {PyList(<<Relation>>), PyDict({"added_entities"})}

\* "\n".join(content of every message that is not a system message)
GraphData(messages) == SelectSeq(messages, LAMBDA m : m.role # "system")

\* _add_to_graph(messages, filters), lines 284-297; raises when graph.add raises
AddToGraph(raises, value) ==
    /\ pc = "dispatched" /\ gpc = "run"
    /\ raises => ~failed
    /\ gtrace' = Append(gtrace, Call("graph.add", GraphData(Normalize(args.messages))))
    /\ IF raises
       THEN /\ gpc' = "raised"
            /\ gout' = Raised("GraphError")
            /\ failed' = TRUE
       ELSE /\ gpc' = "done"
            /\ gout' = Returned(value)
            /\ failed' = failed
    /\ UNCHANGED <<vector_store, db, enable_graph, calls, graph, clock, nextId, vlog, pc, args, vpc,
                   metadata, filters, locals, vtrace, vout, notes, result>>

\* ------------------------------------------------------- the join of Memory.add
\* line 130: isinstance(result, list) or (isinstance(result, dict) and "id" in result
\*           or "event" in result)
LooksLikeVector(r) ==
    \/ r.kind = "list"
    \/ (r.kind = "dict" /\ "id" \in r.keys)
    \/ (r.kind = "dict" /\ "event" \in r.keys)

Gathered(status, error, vector_store_result, graph_result) ==
    [status |-> status, error |-> error, vector_store_result |-> vector_store_result,
     graph_result |-> graph_result]

\* the gathering loop stopping after the first future
GatherFirstOnly(futures, vector_store_result, graph_result) ==
    IF futures = <<>> THEN Gathered("ok", NoVal, vector_store_result, graph_result)
    ELSE LET f == futures[1]
         IN  IF f.status = "raise"
             THEN Gathered("raise", f.error, vector_store_result, graph_result)
             ELSE IF LooksLikeVector(f.value)
             THEN Gathered("ok", NoVal, f.value, graph_result)
             ELSE Gathered("ok", NoVal, vector_store_result, f.value)

\* for f in futures: raise its exception, or file its result (lines 125-135)
RECURSIVE Gather(_, _, _)
Gather(futures, vector_store_result, graph_result) ==
    IF futures = <<>> THEN Gathered("ok", NoVal, vector_store_result, graph_result)
    ELSE LET f == futures[1]
         IN  IF f.status = "raise"
             THEN Gathered("raise", f.error, vector_store_result, graph_result)
             ELSE IF LooksLikeVector(f.value)
             THEN Gather(Tail(futures), f.value, graph_result)
             ELSE Gather(Tail(futures), vector_store_result, f.value)

\* the futures list, in submission order
Futures == (IF vpc = "none" THEN <<>> ELSE <<vout>>) \o (IF gpc = "none" THEN <<>> ELSE <<gout>>)

\* the v1.1 return value (lines 137-144)
AddResult(g) ==
    IF args.store_mode \in {"graph", "both"} /\ enable_graph
    THEN [results |-> g.vector_store_result, relations |-> g.graph_result]
    ELSE [results |-> g.vector_store_result, relations |-> Absent]

\* the join answering once the vector unit has finished, the graph unit or not
AddJoinWithoutWaiting ==
    /\ pc = "dispatched"
    /\ vpc \in {"none", "done", "raised"}
    /\ LET g == Gather(IF vpc = "none" THEN <<>> ELSE <<vout>>, PyNone, PyNone)
       IN  result' = IF g.status = "raise" THEN Raised(g.error) ELSE Returned(AddResult(g))
    /\ pc' = "returned"
    /\ UNCHANGED <<vector_store, db, enable_graph, calls, graph, clock, nextId, vlog, failed,
                   args, vpc, gpc, metadata, filters, locals, vtrace, gtrace, vout, gout,
                   notes>>

\* the join returning as soon as one unit has raised
AddJoinOnFirstException ==
    /\ pc = "dispatched"
    /\ \/ vpc = "raised"
       \/ gpc = "raised"
       \/ (vpc \in {"none", "done", "raised"} /\ gpc \in {"none", "done", "raised"})
    /\ result' = IF vout.status = "raise" THEN Raised(vout.error)
                 ELSE IF gout.status = "raise" THEN Raised(gout.error)
                 ELSE Returned(AddResult(Gather(Futures, PyNone, PyNone)))
    /\ pc' = "returned"
    /\ UNCHANGED <<vector_store, db, enable_graph, calls, graph, clock, nextId, vlog, failed,
                   args, vpc, gpc, metadata, filters, locals, vtrace, gtrace, vout, gout,
                   notes>>

\* concurrent.futures.wait(futures) has returned: gather and answer the caller
AddJoin ==
    /\ pc = "dispatched"
    /\ vpc \in {"none", "done", "raised"}
    /\ gpc \in {"none", "done", "raised"}
    /\ LET g == Gather(Futures, PyNone, PyNone)
       IN  result' = IF g.status = "raise" THEN Raised(g.error) ELSE Returned(AddResult(g))
    /\ pc' = "returned"
    /\ UNCHANGED <<vector_store, db, enable_graph, calls, graph, clock, nextId, vlog, failed,
                   args, vpc, gpc, metadata, filters, locals, vtrace, gtrace, vout, gout,
                   notes>>

\* ------------------------------------------------------------- Memory.search
\* default limit of search (line 413)
DefaultLimit == 100

SearchArgs(query, ids, fparam) ==
    [NoArgs EXCEPT !.op = "search", !.user_id = ids.user_id, !.agent_id = ids.agent_id,
                   !.run_id = ids.run_id, !.filters = fparam, !.query = query]

\* one item of _search_vector_store's answer
SearchItem(vs, id) ==
    [id |-> id, memory |-> vs[id].payload.data, hash |-> vs[id].payload.hash,
     created_at |-> vs[id].payload.created_at, updated_at |-> vs[id].payload.updated_at]

\* search(query, user_id, agent_id, run_id, limit, filters), lines 413-462
Search(query, ids, fparam) ==
    /\ pc = "idle" /\ ~failed
    /\ args' = SearchArgs(query, ids, fparam)
    /\ notes' = {}
    /\ ResetUnits
    /\ LET flt == WithIds(fparam, ids)
           found == VsSearch(vector_store, Embed(query), DefaultLimit, flt)
           memories == [i \in DOMAIN found |-> SearchItem(vector_store, found[i])]
       IN  IF ~HasScope(flt)
           THEN /\ result' = Raised("ScopeError")
                /\ vtrace' = <<>> /\ gtrace' = <<>>
           ELSE /\ result' = Returned([results |-> PyList(memories),
                                       relations |-> IF enable_graph THEN PyList(<<>>)
                                                     ELSE Absent])
                /\ vtrace' = <<Call("embed", query), Call("vs.search", query)>>
                /\ gtrace' = IF enable_graph THEN <<Call("graph.search", query)>>
                             ELSE <<>>
    /\ pc' = "returned"
    /\ UNCHANGED <<vector_store, db, enable_graph, calls, graph, clock, nextId, vlog, failed>>

\* -------------------------------------------- POST /search_formatted (src/main.py)
\* "\n".join(lines)
RECURSIVE JoinLines(_)
JoinLines(lines) ==
    IF lines = <<>> THEN ""
    ELSE IF Len(lines) = 1 THEN lines[1]
    ELSE lines[1] \o "\n" \o JoinLines(Tail(lines))

\* what `for item in results` yields when results is the dict search returns with
\* version v1.1: the keys of the dict, which are strings
IterateDict(results) ==
    <<"results">> \o (IF results.relations = Absent THEN <<>> ELSE <<"relations">>)

\* [f"- {item['memory']}" for item in results]: item['memory'] of a str raises
\* TypeError as soon as there is an item
BulletLines(results) ==
    IF IterateDict(results) = <<>> THEN Returned(<<>>) ELSE Raised("TypeError")

FormattedArgs(query, run_id, limit) ==
    [NoArgs EXCEPT !.op = "search_formatted", !.query = query, !.agent_id = "ordpedia",
                   !.run_id = run_id, !.limit = limit]

\* the body of a successful answer
FormattedResponse(results, bullet_points) ==
    [status |-> "success", results |-> results, bullet_points |-> bullet_points]

\* search_formatted(req), src/main.py lines 291-323: every exception becomes HTTP 500
SearchFormatted(query, run_id, req_limit) ==
    /\ pc = "idle" /\ ~failed
    /\ args' = FormattedArgs(query, run_id, req_limit)
    /\ notes' = {}
    /\ ResetUnits
    /\ LET limit == IF req_limit # NoLimit THEN req_limit ELSE FormattedLimit
           flt == WithIds(EmptyScope, [EmptyScope EXCEPT !.agent_id = "ordpedia",
                                                         !.run_id = run_id])
           found == VsSearch(vector_store, Embed(query), limit, flt)
           memories == [i \in DOMAIN found |-> SearchItem(vector_store, found[i])]
           results == [results |-> PyList(memories),
                       relations |-> IF enable_graph THEN PyList(<<>>) ELSE Absent]
           lines == BulletLines(results)
       IN  result' = IF lines.status = "raise" THEN Raised("HTTP 500")
                     ELSE Returned(FormattedResponse(results, JoinLines(lines.value)))
    /\ vtrace' = <<Call("embed", query), Call("vs.search", query)>>
    /\ gtrace' = IF enable_graph THEN <<Call("graph.search", query)>> ELSE <<>>
    /\ pc' = "returned"
    /\ UNCHANGED <<vector_store, db, enable_graph, calls, graph, clock, nextId, vlog, failed>>

\* ------------------------------------------------------------- Memory.update
DirectArgs(op, memory_id, data) ==
    [NoArgs EXCEPT !.op = op, !.memory_id = memory_id, !.data = data]

\* update(memory_id, data), lines 500-509
Update(memory_id, data, fail) ==
    /\ pc = "idle" /\ ~failed
    /\ clock < MaxClock
    /\ args' = DirectArgs("update", memory_id, data)
    /\ notes' = {}
    /\ ResetUnits
    /\ LET w1 == Traced(FreshWorld, "embed", data)
           o == UpdateMemory(w1, memory_id, data, {data}, EmptyDict, fail)
       IN  /\ SetWorld(o.w)
           /\ result' = IF o.ok THEN Returned("Memory updated successfully!")
                        ELSE Raised(o.error)
    /\ pc' = "returned"
    /\ gtrace' = <<>>
    /\ UNCHANGED <<enable_graph, calls, graph>>

\* ------------------------------------------------------------- Memory.delete
\* delete(memory_id), lines 511-517
Delete(memory_id, fail) ==
    /\ pc = "idle" /\ ~failed
    /\ args' = DirectArgs("delete", memory_id, NoVal)
    /\ notes' = {}
    /\ ResetUnits
    /\ LET o == DeleteMemory(FreshWorld, memory_id, fail)
       IN  /\ SetWorld(o.w)
           /\ result' = IF o.ok THEN Returned("Memory deleted successfully!")
                        ELSE Raised(o.error)
    /\ pc' = "returned"
    /\ gtrace' = <<>>
    /\ UNCHANGED <<enable_graph, calls, graph>>

\* --------------------------------------------------------- Memory.delete_all
\* for memory in memories: self._delete_memory(memory.id); the failAt-th delete
\* meets the failure `fail`
\* the loop leaving after the first memory
DeleteLoopFirstOnly(w, memories, failAt, fail) ==
    IF memories = <<>> THEN Outcome(w, EmptyDict, TRUE, NoVal, NoVal)
    ELSE DeleteMemory(w, memories[1], IF failAt = 1 THEN fail ELSE "none")

RECURSIVE DeleteLoop(_, _, _, _)
DeleteLoop(w, memories, failAt, fail) ==
    IF memories = <<>> THEN Outcome(w, EmptyDict, TRUE, NoVal, NoVal)
    ELSE LET o == DeleteMemory(w, memories[1], IF failAt = 1 THEN fail ELSE "none")
         IN  IF o.ok THEN DeleteLoop(o.w, Tail(memories), failAt - 1, fail) ELSE o

DeleteAllArgs(ids) ==
    [NoArgs EXCEPT !.op = "delete_all", !.user_id = ids.user_id,
                   !.agent_id = ids.agent_id, !.run_id = ids.run_id]

\* delete_all(user_id, agent_id, run_id), lines 519-546
DeleteAll(ids, failAt, fail) ==
    /\ pc = "idle" /\ ~failed
    /\ args' = DeleteAllArgs(ids)
    /\ notes' = {}
    /\ ResetUnits
    /\ LET flt == WithIds(EmptyScope, ids)
           w1 == Traced(FreshWorld, "vs.list", NoVal)
           o == DeleteLoop(w1, VsList(vector_store, flt), failAt, fail)
       IN  IF ~HasScope(flt)
           THEN /\ result' = Raised("ScopeError")
                /\ vtrace' = <<>>
                /\ gtrace' = <<>>
                /\ UNCHANGED <<vector_store, db, clock, nextId, vlog, failed>>
           ELSE /\ SetWorld(o.w)
                /\ result' = IF o.ok THEN Returned("Memories deleted successfully!")
                             ELSE Raised(o.error)
                /\ gtrace' = IF o.ok /\ enable_graph
                             THEN <<Call("graph.delete_all", NoVal)>> ELSE <<>>
    /\ pc' = "returned"
    /\ UNCHANGED <<enable_graph, calls, graph>>

\* ---------------------------------------------------------------- Memory.get
\* the dict get builds from a record (lines 308-333)
GetItem(vs, id) ==
    [id |-> id, memory |-> vs[id].payload.data, hash |-> vs[id].payload.hash,
     created_at |-> vs[id].payload.created_at, updated_at |-> vs[id].payload.updated_at,
     user_id |-> vs[id].payload.user_id, agent_id |-> vs[id].payload.agent_id,
     run_id |-> vs[id].payload.run_id, metadata |-> vs[id].payload.extra]

\* get(memory_id), lines 299-335: None when the vector index has no such record
Get(memory_id) ==
    /\ pc = "idle" /\ ~failed
    /\ args' = DirectArgs("get", memory_id, NoVal)
    /\ notes' = {}
    /\ ResetUnits
    /\ LET memory == VsGet(vector_store, memory_id)
       IN  result' = IF ~memory.present THEN Returned(PyNone)
                     ELSE Returned(PyList(<<GetItem(vector_store, memory_id)>>))
    /\ vtrace' = <<Call("vs.get", memory_id)>>
    /\ gtrace' = <<>>
    /\ pc' = "returned"
    /\ UNCHANGED <<vector_store, db, enable_graph, calls, graph, clock, nextId, vlog, failed>>

\* ------------------------------------------------------------ Memory.get_all
GetAllArgs(ids) ==
    [NoArgs EXCEPT !.op = "get_all", !.user_id = ids.user_id,
                   !.agent_id = ids.agent_id, !.run_id = ids.run_id]

\* get_all(user_id, agent_id, run_id, limit), lines 337-411: no scope is required
GetAll(ids) ==
    /\ pc = "idle" /\ ~failed
    /\ args' = GetAllArgs(ids)
    /\ notes' = {}
    /\ ResetUnits
    /\ LET flt == WithIds(EmptyScope, ids)
           found == Take(VsList(vector_store, flt), DefaultLimit)
           all_memories == [i \in DOMAIN found |-> GetItem(vector_store, found[i])]
       IN  result' = Returned([results |-> PyList(all_memories),
                               relations |-> IF enable_graph THEN PyList(<<>>)
                                             ELSE Absent])
    /\ vtrace' = <<Call("vs.list", NoVal)>>
    /\ gtrace' = IF enable_graph THEN <<Call("graph.get_all", NoVal)>> ELSE <<>>
    /\ pc' = "returned"
    /\ UNCHANGED <<vector_store, db, enable_graph, calls, graph, clock, nextId, vlog, failed>>

\* ------------------------------------------------------------ Memory.history
\* history(memory_id), lines 548-553
History(memory_id) ==
    /\ pc = "idle" /\ ~failed
    /\ args' = DirectArgs("history", memory_id, NoVal)
    /\ notes' = {}
    /\ ResetUnits
    /\ result' = Returned(PyList(GetHistory(db, memory_id)))
    /\ vtrace' = <<Call("db.get_history", memory_id)>>
    /\ gtrace' = <<>>
    /\ pc' = "returned"
    /\ UNCHANGED <<vector_store, db, enable_graph, calls, graph, clock, nextId, vlog, failed>>

\* -------------------------------------------------------------- Memory.reset
\* vector_store.delete_col() followed by a new, empty vector store
DeleteCol(vs) == [i \in DOMAIN vs |-> NoRec]

\* db.reset(): the history table is dropped and created anew
DbReset(h) == <<>>

\* reset(), lines 628-638
Reset ==
    /\ pc = "idle" /\ ~failed
    /\ args' = DirectArgs("reset", NoVal, NoVal)
    /\ notes' = {}
    /\ ResetUnits
    /\ vector_store' = DeleteCol(vector_store)
    /\ vlog' = <<>>
    /\ db' = DbReset(db)
    /\ result' = Returned(PyNone)
    /\ vtrace' = <<Call("vs.delete_col", NoVal), Call("db.reset", NoVal)>>
    /\ gtrace' = <<>>
    /\ pc' = "returned"
    /\ UNCHANGED <<enable_graph, calls, graph, clock, nextId, failed>>

\* ------------------------------------------------------------------- return
\* the caller has taken the answer of the call; nothing of the call remains
Return ==
    /\ pc = "returned"
    /\ pc' = "idle"
    /\ args' = NoArgs
    /\ result' = NoOut
    /\ notes' = {}
    /\ vtrace' = <<>> /\ gtrace' = <<>>
    /\ ResetUnits
    /\ UNCHANGED <<vector_store, db, enable_graph, calls, graph, clock, nextId, vlog, failed>>

\* ------------------------------------------------------------ concurrent calls
\* Several caller threads use the one Memory object.  Each statement of a private
\* helper that calls a provider, or assigns a field of self.graph, is one step;
\* the steps of different threads interleave freely.
sequential ==
    <<enable_graph, failed, pc, args, vpc, gpc, metadata, filters, locals, vtrace,
      gtrace, vout, gout, notes, result>>

At(p, op, at) == calls[p].op = op /\ calls[p].pc = at

Goto(p, at) == calls' = [calls EXCEPT ![p].pc = at]

\* ---- _add_to_graph of an add call (lines 284-297)
\* the scopes of the concurrent add calls
GraphScopes ==
    { [EmptyScope EXCEPT !.user_id = "u1"],
      [EmptyScope EXCEPT !.agent_id = "ordpedia", !.run_id = "r1"] }

\* add(..., store_mode "graph") has submitted _add_to_graph(messages, filters)
GraphCall(p, scope) ==
    /\ enable_graph
    /\ calls[p].pc = "idle"
    /\ calls' = [calls EXCEPT ![p] = [IdleCall EXCEPT !.op = "add_graph",
                                                      !.pc = "set_user_id",
                                                      !.scope = scope]]
    /\ UNCHANGED <<vector_store, db, clock, nextId, vlog, graph, sequential>>

\* self.graph.user_id = filters.get("user_id", None) (line 289)
SetUserId(p) ==
    /\ At(p, "add_graph", "set_user_id")
    /\ graph' = [graph EXCEPT !.user_id = calls[p].scope.user_id]
    /\ Goto(p, "set_agent_id")
    /\ UNCHANGED <<vector_store, db, clock, nextId, vlog, sequential>>

\* self.graph.agent_id = filters.get("agent_id", None) (line 290)
SetAgentId(p) ==
    /\ At(p, "add_graph", "set_agent_id")
    /\ graph' = [graph EXCEPT !.agent_id = calls[p].scope.agent_id]
    /\ Goto(p, "set_run_id")
    /\ UNCHANGED <<vector_store, db, clock, nextId, vlog, sequential>>

\* self.graph.run_id = filters.get("run_id", None) (line 291)
SetRunId(p) ==
    /\ At(p, "add_graph", "set_run_id")
    /\ graph' = [graph EXCEPT !.run_id = calls[p].scope.run_id]
    /\ Goto(p, "graph_add")
    /\ UNCHANGED <<vector_store, db, clock, nextId, vlog, sequential>>

\* added_entities = self.graph.add(data, filters) (line 294): the call finds the
\* identifiers the graph object holds at this moment
GraphAdd(p) ==
    /\ At(p, "add_graph", "graph_add")
    /\ calls' = [calls EXCEPT ![p].seen = graph, ![p].pc = "done"]
    /\ UNCHANGED <<vector_store, db, clock, nextId, vlog, graph, sequential>>

\* the call has returned to its caller
CallReturn(p) ==
    /\ calls[p].pc \in {"done", "raised"}
    /\ calls' = [calls EXCEPT ![p] = IdleCall]
    /\ UNCHANGED <<vector_store, db, clock, nextId, vlog, graph, sequential>>

\* ---- _create_memory of an add call (lines 555-574)
\* clock readings the running calls have still to make
Pending == Cardinality({p \in Procs : calls[p].pc \in {"insert", "get_for_update", "update"}})

CreateCall(p, data) ==
    /\ calls[p].pc = "idle"
    /\ nextId + Cardinality({q \in Procs : calls[q].pc = "insert"}) < MaxIds
    /\ clock + Pending < MaxClock
    /\ calls' = [calls EXCEPT ![p] = [IdleCall EXCEPT !.op = "add", !.pc = "insert",
                                                      !.data = data]]
    /\ UNCHANGED <<vector_store, db, clock, nextId, vlog, graph, sequential>>

\* uuid4, datetime.now() and self.vector_store.insert(...) (lines 561-571)
CreateInsert(p) ==
    /\ At(p, "add", "insert")
    /\ LET memory_id == nextId + 1
           now == clock + 1
           md == [EmptyDict EXCEPT !.data = calls[p].data, !.hash = Md5(calls[p].data),
                                   !.created_at = now, !.agent_id = "ordpedia"]
       IN  /\ vector_store' = [vector_store EXCEPT ![memory_id] =
                   [vector |-> Embed(calls[p].data), payload |-> md, present |-> TRUE]]
           /\ vlog' = Append(vlog, [id |-> memory_id, event |-> "ADD"])
           /\ nextId' = memory_id /\ clock' = now
           /\ calls' = [calls EXCEPT ![p].memory_id = memory_id, ![p].created_at = now,
                                     ![p].pc = "add_history"]
    /\ UNCHANGED <<db, graph, sequential>>

\* self.db.add_history(memory_id, None, data, "ADD", created_at) (line 572)
CreateHistory(p) ==
    /\ At(p, "add", "add_history")
    /\ db' = AddHistory(db, HistoryEntry(calls[p].memory_id, NoVal, calls[p].data, "ADD",
                                         calls[p].created_at, NoTime, 0))
    /\ Goto(p, "done")
    /\ UNCHANGED <<vector_store, clock, nextId, vlog, graph, sequential>>

\* ---- _update_memory (lines 576-617), from update or from an UPDATE decision
\* what the vector index does with a write to an id it does not hold
AbsentOutcomes == {"accept", "raise"}

UpdateCall(p, memory_id, data) ==
    /\ calls[p].pc = "idle"
    /\ clock + Pending < MaxClock
    /\ calls' = [calls EXCEPT ![p] = [IdleCall EXCEPT !.op = "update",
                                                      !.pc = "get_for_update",
                                                      !.memory_id = memory_id,
                                                      !.data = data]]
    /\ UNCHANGED <<vector_store, db, clock, nextId, vlog, graph, sequential>>

\* existing_memory = self.vector_store.get(vector_id=memory_id); .payload of None
\* raises (lines 579-583)
UpdateGet(p) ==
    /\ At(p, "update", "get_for_update")
    /\ LET existing_memory == VsGet(vector_store, calls[p].memory_id)
       IN  calls' = IF existing_memory.present
                    THEN [calls EXCEPT ![p].existing_memory = existing_memory,
                                       ![p].pc = "update"]
                    ELSE [calls EXCEPT ![p].error = "MemoryNotFound", ![p].pc = "raised"]
    /\ UNCHANGED <<vector_store, db, clock, nextId, vlog, graph, sequential>>

\* new_metadata from the record read earlier, then self.vector_store.update(...)
\* (lines 585-606)
UpdateWrite(p, absent) ==
    /\ At(p, "update", "update")
    /\ LET memory_id == calls[p].memory_id
           now == clock + 1
           new_metadata == NewMetadata(EmptyDict, calls[p].existing_memory.payload,
                                       calls[p].data, now)
       IN  /\ clock' = now
           /\ IF vector_store[memory_id].present \/ absent = "accept"
              THEN /\ vector_store' = [vector_store EXCEPT ![memory_id] =
                          [vector |-> Embed(calls[p].data), payload |-> new_metadata,
                           present |-> TRUE]]
                   /\ vlog' = Append(vlog, [id |-> memory_id, event |-> "UPDATE"])
                   /\ calls' = [calls EXCEPT ![p].created_at = now,
                                             ![p].pc = "add_history"]
              ELSE /\ calls' = [calls EXCEPT ![p].error = "ProviderError",
                                             ![p].pc = "raised"]
                   /\ UNCHANGED <<vector_store, vlog>>
    /\ UNCHANGED <<db, nextId, graph, sequential>>

\* self.db.add_history(memory_id, prev_value, data, "UPDATE", ...) (lines 608-615)
UpdateHistory(p) ==
    /\ At(p, "update", "add_history")
    /\ db' = AddHistory(db,
                HistoryEntry(calls[p].memory_id, calls[p].existing_memory.payload.data,
                             calls[p].data, "UPDATE",
                             calls[p].existing_memory.payload.created_at,
                             calls[p].created_at, 0))
    /\ Goto(p, "done")
    /\ UNCHANGED <<vector_store, clock, nextId, vlog, graph, sequential>>

\* ---- _delete_memory (lines 619-626), from delete or from a DELETE decision
DeleteCall(p, memory_id) ==
    /\ calls[p].pc = "idle"
    /\ calls' = [calls EXCEPT ![p] = [IdleCall EXCEPT !.op = "delete",
                                                      !.pc = "get_for_delete",
                                                      !.memory_id = memory_id]]
    /\ UNCHANGED <<vector_store, db, clock, nextId, vlog, graph, sequential>>

\* existing_memory = self.vector_store.get(...); prev_value = ....payload["data"]
\* (lines 621-622)
DeleteGet(p) ==
    /\ At(p, "delete", "get_for_delete")
    /\ LET existing_memory == VsGet(vector_store, calls[p].memory_id)
       IN  calls' = IF existing_memory.present
                    THEN [calls EXCEPT ![p].existing_memory = existing_memory,
                                       ![p].pc = "delete"]
                    ELSE [calls EXCEPT ![p].error = "MemoryNotFound", ![p].pc = "raised"]
    /\ UNCHANGED <<vector_store, db, clock, nextId, vlog, graph, sequential>>

\* self.vector_store.delete(vector_id=memory_id) (line 623)
DeleteWrite(p, absent) ==
    /\ At(p, "delete", "delete")
    /\ LET memory_id == calls[p].memory_id
       IN  IF vector_store[memory_id].present \/ absent = "accept"
           THEN /\ vector_store' = [vector_store EXCEPT ![memory_id] = NoRec]
                /\ vlog' = Append(vlog, [id |-> memory_id, event |-> "DELETE"])
                /\ Goto(p, "add_history")
           ELSE /\ calls' = [calls EXCEPT ![p].error = "ProviderError", ![p].pc = "raised"]
                /\ UNCHANGED <<vector_store, vlog>>
    /\ UNCHANGED <<db, clock, nextId, graph, sequential>>

\* self.db.add_history(memory_id, prev_value, None, "DELETE", is_deleted=1) (line 624)
DeleteHistory(p) ==
    /\ At(p, "delete", "add_history")
    /\ db' = AddHistory(db,
                HistoryEntry(calls[p].memory_id, calls[p].existing_memory.payload.data,
                             NoVal, "DELETE", NoTime, NoTime, 1))
    /\ Goto(p, "done")
    /\ UNCHANGED <<vector_store, clock, nextId, vlog, graph, sequential>>

\* --------------------------------------------------------------------- Next
\* the steps of a running add call, and the return of any call
AddSteps ==
    \/ \E response \in ExtractionResponses : Extract(response)
    \/ Retrieve
    \/ \E response \in PlannerResponses : Plan(response)
    \/ \E resp \in Decisions, fail \in Fails : ApplyDecision(resp, fail)
    \/ VectorReturn
    \/ \E fail \in Fails : RawStep(fail)
    \/ RawReturn
    \/ AddJoin
    \/ Return

Next ==
    \/ \E a \in AddScopeInputs, m \in AddModeInputs :
          AddCall(a.ids, a.fparam, a.mparam, m.messages, m.skip_extraction, m.store_mode)
    \/ AddSteps
    \/ \E query \in Texts, ids \in IdInputs, fparam \in FilterInputs :
          Search(query, ids, fparam)
    \/ \E memory_id \in Ids, data \in Texts, fail \in Fails : Update(memory_id, data, fail)
    \/ \E memory_id \in Ids, fail \in Fails : Delete(memory_id, fail)
    \/ \E ids \in IdInputs, failAt \in Ids, fail \in Fails : DeleteAll(ids, failAt, fail)

\* the service as src/main.py configures it: every operation, no graph store
Spec == Init /\ [][Next]_vars

NextPublic ==
    \/ Next
    \/ \E memory_id \in Ids : Get(memory_id)
    \/ \E ids \in IdInputs : GetAll(ids)
    \/ \E memory_id \in Ids : History(memory_id)
    \/ Reset

\* every public operation of the engine, no graph store
SpecPublic == Init /\ [][NextPublic]_vars

\* what the extraction call may answer where the vector path is followed alone
PipelineResponses ==
    {[kind |-> k, facts |-> <<>>] : k \in {"unparsable", "nokey"}}
    \cup {[kind |-> "facts", facts |-> f] : f \in SeqsUpTo(Texts, MaxPipelineFacts)}

NextPipeline ==
    \/ \E a \in AddScopeInputs :
          AddCall(a.ids, a.fparam, a.mparam, StrMessages("t1"), FALSE, "vector")
    \/ \E response \in PipelineResponses : Extract(response)
    \/ Retrieve
    \/ \E response \in PlannerResponses : Plan(response)
    \/ \E resp \in Decisions, fail \in Fails : ApplyDecision(resp, fail)
    \/ VectorReturn
    \/ AddJoin
    \/ Return

\* extraction-enabled add calls alone, no graph store
SpecPipeline == Init /\ [][NextPipeline]_vars

\* the run_id and limit fields of a /search_formatted request
RunIdInputs == {NoVal, "r1"}
LimitInputs == {NoLimit, 1}

NextService ==
    \/ Next
    \/ \E query \in Texts, run_id \in RunIdInputs, req_limit \in LimitInputs :
          SearchFormatted(query, run_id, req_limit)

\* the engine behind the HTTP service, with its /search_formatted endpoint
SpecService == Init /\ [][NextService]_vars

\* The engine with a graph store.
InitGraph == Constructed /\ enable_graph = TRUE

NextGraph ==
    \/ \E p \in Procs, scope \in GraphScopes : GraphCall(p, scope)
    \/ \E p \in Procs : SetUserId(p)
    \/ \E p \in Procs : SetAgentId(p)
    \/ \E p \in Procs : SetRunId(p)
    \/ \E p \in Procs : GraphAdd(p)
    \/ \E p \in Procs : CallReturn(p)

\* concurrent add calls on the graph path
SpecGraph == InitGraph /\ [][NextGraph]_vars

NextConcurrent ==
    \/ \E p \in Procs : CreateCall(p, "t1")
    \/ \E p \in Procs : CreateInsert(p)
    \/ \E p \in Procs : CreateHistory(p)
    \/ \E p \in Procs, memory_id \in Ids, data \in Texts : UpdateCall(p, memory_id, data)
    \/ \E p \in Procs : UpdateGet(p)
    \/ \E p \in Procs, absent \in AbsentOutcomes : UpdateWrite(p, absent)
    \/ \E p \in Procs : UpdateHistory(p)
    \/ \E p \in Procs, memory_id \in Ids : DeleteCall(p, memory_id)
    \/ \E p \in Procs : DeleteGet(p)
    \/ \E p \in Procs, absent \in AbsentOutcomes : DeleteWrite(p, absent)
    \/ \E p \in Procs : DeleteHistory(p)
    \/ \E p \in Procs : CallReturn(p)

\* concurrent add, update and delete calls on the vector index and the ledger
SpecConcurrent == Init /\ [][NextConcurrent]_vars

NextAdd ==
    \/ \E a \in GraphScopeInputs, m \in AddModeInputs :
          AddCall(a.ids, a.fparam, a.mparam, m.messages, m.skip_extraction, m.store_mode)
    \/ AddSteps
    \/ \E raises \in BOOLEAN, value \in GraphReturns : AddToGraph(raises, value)

\* add calls alone, with and without a graph store
SpecAdd == InitAdd /\ [][NextAdd]_vars

\* ======================================================================
\* Properties
\* ======================================================================
Last(q) == q[Len(q)]

Values(f) == {f[x] : x \in DOMAIN f}

Writes == {"vs.insert", "vs.update", "vs.delete", "db.add_history"}

\* the running (or last) call wrote to the vector index or to the ledger
Mutated == \E i \in DOMAIN vtrace : vtrace[i].call \in Writes

AddReturned == pc = "returned" /\ args.op = "add"

\* identifiers and filters of the running (or last) call, merged
SuppliedScope ==
    WithIds(args.filters, [user_id |-> args.user_id, agent_id |-> args.agent_id,
                           run_id |-> args.run_id])

\* C1: as long as no provider call has failed, the accepted writes of the vector
\* index and the rows of the history ledger pair off one to one, in order, with the
\* same memory id and the same event.
C1_LedgerPairsIndexWrites ==
    ~failed =>
        /\ Len(vlog) = Len(db)
        /\ \A i \in DOMAIN vlog :
              vlog[i].id = db[i].memory_id /\ vlog[i].event = db[i].event

C1_Witness ==
    /\ ~failed /\ pc = "returned"
    /\ {db[i].event : i \in DOMAIN db} = {"ADD", "UPDATE", "DELETE"}

\* C2: every UPDATE or DELETE that a running add call gets accepted by the vector
\* index targets an id of that call's temp_uuid_mapping, and the record it
\* overwrites or removes matches the call's filters.
C2_AddMutatesOnlyRetrievedInScope ==
    [][(pc = "dispatched" /\ Len(vlog') > Len(vlog)
          /\ Last(vlog').event \in {"UPDATE", "DELETE"})
       => /\ Last(vlog').id \in Values(temp_uuid_mapping)
          /\ Matches(vector_store[Last(vlog').id].payload, filters)]_vars

C2_Witness ==
    /\ pc = "dispatched" /\ vpc = "apply"
    /\ \E i \in DOMAIN returned_memories : returned_memories[i].event \in {"UPDATE", "DELETE"}
    /\ \E i \in Ids : vector_store[i].present /\ ~Matches(vector_store[i].payload, filters)

\* C3: an add call whose planner output held an UPDATE or DELETE with a handle
\* outside temp_uuid_mapping raises to its caller.
C3_UnknownHandleIsFatal ==
    (AddReturned /\ ~failed /\ "unknown_handle" \in notes) => result.status = "raise"

\* C4: an add call whose planner output was unparsable, lacked the decision list
\* or held a decision lacking a required key raises to its caller.
C4_MalformedPlanIsFatal ==
    (AddReturned /\ ~failed
       /\ notes \cap {"planner_unparsable", "planner_nokey", "decision_missing_key"} # {})
    => result.status = "raise"

\* C5: an add call in which the vector index accepted a write and the history
\* append that follows failed raises to its caller.
C5_LostHistoryIsSurfaced ==
    (AddReturned /\ "history_failed_after_write" \in notes) => result.status = "raise"

\* C6: an add call in which an UPDATE or DELETE decision with a valid handle met a
\* record absent from the vector index raises to its caller.
C6_AbsentTargetIsSurfaced ==
    (AddReturned /\ ~failed /\ notes \ DecisionNotes = {"absent_target"}) => result.status = "raise"

\* C7: add, search and delete_all begun with no user_id, agent_id or run_id (in
\* the arguments or in filters) return at once by raising, with no provider call
\* made and the vector index and the ledger as they were.
C7_NoScopeRaisesBeforeProviders ==
    [][(pc = "idle" /\ pc' # "idle" /\ args'.op \in {"add", "search", "delete_all"}
          /\ \A k \in ScopeKeys : args'[k] = NoVal /\ args'.filters[k] = NoVal)
       => /\ pc' = "returned" /\ result'.status = "raise"
          /\ vtrace' = <<>> /\ gtrace' = <<>>
          /\ UNCHANGED <<vector_store, db, vlog, clock, nextId>>]_vars

C7_Witness ==
    /\ pc = "returned" /\ args.op = "delete_all" /\ ~HasScope(SuppliedScope)
    /\ result.status = "raise"
    /\ \E i \in Ids : vector_store[i].present

\* C8: add begun with skip_extraction and store_mode "graph" or "both" returns at
\* once by raising a configuration error, graph store or not: no unit is
\* dispatched, no provider call is made and the stores are as they were.
C8_SkipWithGraphRefused ==
    [][(pc = "idle" /\ pc' # "idle" /\ args'.op = "add" /\ args'.skip_extraction
          /\ args'.store_mode \in {"graph", "both"})
       => /\ pc' = "returned"
          /\ result'.status = "raise" /\ result'.error = "ConfigurationError"
          /\ vpc' = "none" /\ gpc' = "none"
          /\ vtrace' = <<>> /\ gtrace' = <<>>
          /\ UNCHANGED <<vector_store, db, vlog, clock, nextId>>]_vars

C8_Witness ==
    /\ pc = "returned" /\ args.op = "add" /\ args.skip_extraction
    /\ args.store_mode = "both" /\ HasScope(SuppliedScope) /\ enable_graph
    /\ result.status = "raise" /\ result.error = "ConfigurationError"
    /\ \E i \in Ids : vector_store[i].present

\* C9: an add call whose extraction output could not be parsed does not raise for
\* it (only an unparsable planner output may still raise), searches for no
\* candidate and writes nothing to the vector index or to the ledger.
C9_ExtractionFailureRecordsNothing ==
    (AddReturned /\ ~failed /\ "extraction_unparsable" \in notes)
    => /\ result.status = "raise" => "planner_unparsable" \in notes
       /\ ~Mutated
       /\ \A i \in DOMAIN vtrace : vtrace[i].call # "vs.search"

\* C10: when add has dispatched both units, it answers only after both finished,
\* and it raises the vector unit's error if that unit raised, else the graph
\* unit's error if that unit raised.
C10_JoinRaisesEitherError ==
    /\ (pc = "dispatched") => result.status = "none"
    /\ (AddReturned /\ vpc # "none" /\ gpc # "none")
       => /\ vpc \in {"done", "raised"} /\ gpc \in {"done", "raised"}
          /\ vout.status = "raise"
             => (result.status = "raise" /\ result.error = vout.error)
          /\ (vout.status # "raise" /\ gout.status = "raise")
             => (result.status = "raise" /\ result.error = gout.error)

C10_Witness ==
    /\ AddReturned /\ vpc = "done" /\ gpc = "raised"
    /\ vout.value.items # <<>>
    /\ result.status = "raise" /\ result.error = "GraphError"

\* the next step of the vector unit, whichever it is
VectorStep ==
    \/ \E response \in ExtractionResponses : Extract(response)
    \/ Retrieve
    \/ \E response \in PlannerResponses : Plan(response)
    \/ \E resp \in Decisions, fail \in Fails : ApplyDecision(resp, fail)
    \/ VectorReturn
    \/ \E fail \in Fails : RawStep(fail)
    \/ RawReturn

Finished == {"done", "raised"}

\* C11: the two units of an add call fail alone. The step in which the graph unit
\* raises leaves the stores and the vector unit as they are, and the vector unit
\* can still take its next step; the step in which the vector unit raises leaves
\* the graph unit as it is. When add answers with a unit's error, both units have
\* finished, the graph store was called, and the answer changes neither the vector
\* index nor the ledger.
C11_UnitsFailAlone ==
    [][/\ (pc = "dispatched" /\ gpc = "run" /\ gpc' = "raised")
          => /\ UNCHANGED <<vector_store, db, vlog, vpc, vout, locals, vtrace>>
             /\ (vpc \notin Finished \cup {"none"}) => ENABLED VectorStep
       /\ (pc = "dispatched" /\ vpc \notin Finished /\ vpc' = "raised")
          => UNCHANGED <<gpc, gout, gtrace>>
       /\ (pc = "dispatched" /\ pc' = "returned" /\ vpc # "none" /\ gpc # "none"
             /\ (vout.status = "raise" \/ gout.status = "raise"))
          => /\ vpc \in Finished /\ gpc \in Finished
             /\ gtrace # <<>>
             /\ result'.status = "raise"
             /\ UNCHANGED <<vector_store, db, vlog>>]_vars

C11_Witness ==
    /\ AddReturned /\ gpc = "raised" /\ vpc = "done"
    /\ result.status = "raise"
    /\ \E i \in DOMAIN vout.value.items :
          /\ vout.value.items[i].event = "ADD"
          /\ vector_store[vout.value.items[i].id].present
          /\ \E j \in DOMAIN db : db[j].memory_id = vout.value.items[i].id

\* C12: an add call that returns normally gives, as "results", the list its
\* vector unit returned and, as "relations", the value its graph unit returned,
\* whether that value is a list or a dict.
C12_AddReturnsBothResults ==
    (AddReturned /\ result.status = "ok")
    => /\ vpc = "done" => result.value.results = vout.value
       /\ gpc = "done" => result.value.relations = gout.value

IsPrefix(p, q) == Len(p) <= Len(q) /\ SubSeq(q, 1, Len(p)) = p

\* C13: the ledger only grows. Whatever public operation runs, the ledger after a
\* step starts with the ledger before it, and so does the history of every id.
C13_LedgerIsAppendOnly ==
    [][/\ IsPrefix(db, db')
       /\ \A id \in Ids : IsPrefix(GetHistory(db, id), GetHistory(db', id))]_vars

\* C14: every record of the vector index carries a user_id, an agent_id or a
\* run_id in its payload.
C14_RecordsCarryScope ==
    \A i \in Ids : vector_store[i].present => HasScope(vector_store[i].payload)

\* the vector index accepted an UPDATE of record i
WasUpdated(i) == \E j \in DOMAIN vlog : vlog[j].id = i /\ vlog[j].event = "UPDATE"

\* C15: a record that no UPDATE has targeted has no updated_at (as long as no
\* provider call has failed).
C15_NoUpdatedAtBeforeUpdate ==
    \A i \in Ids :
        (~failed /\ vector_store[i].present /\ ~WasUpdated(i))
        => vector_store[i].payload.updated_at = NoTime

\* C16: a step in which the vector index accepts an UPDATE and the ledger grows
\* (a planner decision or a direct update that succeeded) leaves every other record
\* alone, keeps the record under its id with its created_at and every scope key it
\* had, gives it an updated_at later than its created_at, and appends a history
\* entry of that id with the text before the step and the text after it.
C16_UpdateKeepsIdentity ==
    [][(Len(vlog') = Len(vlog) + 1 /\ Last(vlog').event = "UPDATE"
          /\ Len(db') = Len(db) + 1)
       => LET i == Last(vlog').id
              old == vector_store[i].payload
              new == vector_store'[i].payload
          IN  /\ vector_store[i].present /\ vector_store'[i].present
              /\ \A j \in Ids \ {i} : vector_store'[j] = vector_store[j]
              /\ new.created_at = old.created_at
              /\ \A k \in ScopeKeys : old[k] # NoVal => new[k] = old[k]
              /\ new.updated_at > new.created_at
              /\ Last(db').memory_id = i /\ Last(db').event = "UPDATE"
              /\ Last(db').prev_value = old.data
              /\ Last(db').new_value = new.data]_vars

C16_Witness ==
    /\ pc = "returned" /\ args.op = "update" /\ result.status = "ok"
    /\ HasScope(vector_store[args.memory_id].payload)
    /\ vector_store[args.memory_id].payload.data = args.data
    /\ Len(SelectSeq(db, LAMBDA e : e.event = "UPDATE")) >= 2

\* the last history entry of id i is a DELETE
DeletedIn(ledger, i) ==
    LET h == GetHistory(ledger, i) IN h # <<>> /\ Last(h).event = "DELETE"

Deleted(i) == DeletedIn(db, i)

\* ids of the items a search or get_all call returned
ReturnedIds(r) == {r.value.results.items[n].id : n \in DOMAIN r.value.results.items}

\* C17: after every step, a record whose delete succeeded (its last history entry
\* is a DELETE) is not stored and that entry has is_deleted set; the entry of a
\* delete call that succeeds holds the text the record had; get of such an id
\* returns None and search and get_all return no item with such an id; delete of
\* such an id raises, without a delete on the vector index and with the ledger as
\* it was.
C17_DeletedStaysDeleted ==
    [][/\ \A i \in Ids :
             DeletedIn(db', i) => /\ ~vector_store'[i].present
                                  /\ Last(GetHistory(db', i)).is_deleted = 1
       /\ (pc = "idle" /\ args'.op = "delete" /\ result'.status = "ok")
          => /\ vector_store[args'.memory_id].present
             /\ DeletedIn(db', args'.memory_id)
             /\ Last(db').memory_id = args'.memory_id
             /\ Last(db').prev_value = vector_store[args'.memory_id].payload.data
       /\ (pc = "idle" /\ args'.op = "get" /\ Deleted(args'.memory_id))
          => result' = Returned(PyNone)
       /\ (pc = "idle" /\ args'.op \in {"search", "get_all"} /\ result'.status = "ok")
          => \A i \in ReturnedIds(result') : vector_store[i].present /\ ~Deleted(i)
       /\ (pc = "idle" /\ args'.op = "delete" /\ Deleted(args'.memory_id))
          => /\ result'.status = "raise"
             /\ \A n \in DOMAIN vtrace' : vtrace'[n].call \notin Writes
             /\ UNCHANGED <<vector_store, db, vlog>>]_vars

C17_Witness ==
    /\ pc = "returned" /\ args.op = "delete" /\ result.status = "raise"
    /\ Deleted(args.memory_id)
    /\ Last(GetHistory(db, args.memory_id)).prev_value # NoVal
    /\ \E i \in Ids : vector_store[i].present

\* the scope a delete_all call builds from its identifiers
DeleteAllScope(a) ==
    WithIds(EmptyScope, [user_id |-> a.user_id, agent_id |-> a.agent_id,
                         run_id |-> a.run_id])

\* the stored records matching a scope
InScope(vs, flt) == {i \in Ids : vs[i].present /\ Matches(vs[i].payload, flt)}

Calls(trace, name) == Len(SelectSeq(trace, LAMBDA c : c.call = name))

RawAdd == args.op = "add" /\ args.skip_extraction /\ args.store_mode = "vector"

\* a raw add that returned normally: no language-model call, one insert and one
\* history append per message and no other write, one ADD item per message in
\* message order, each naming a stored record with the message's text whose whole
\* history is one ADD entry, the ids pairwise distinct
RawAddDone ==
    (pc = "returned" /\ RawAdd /\ result.status = "ok")
    => LET msgs == Normalize(args.messages)
           items == result.value.results.items
       IN  /\ Calls(vtrace, "llm.generate_response") = 0
           /\ Calls(vtrace, "vs.insert") = Len(msgs)
           /\ Calls(vtrace, "db.add_history") = Len(msgs)
           /\ Calls(vtrace, "vs.update") = 0 /\ Calls(vtrace, "vs.delete") = 0
           /\ Len(items) = Len(msgs)
           /\ \A n \in DOMAIN items :
                 /\ items[n].event = "ADD" /\ items[n].memory = msgs[n].content
                 /\ vector_store[items[n].id].present
                 /\ vector_store[items[n].id].payload.data = msgs[n].content
                 /\ Len(GetHistory(db, items[n].id)) = 1
                 /\ GetHistory(db, items[n].id)[1].event = "ADD"
                 /\ GetHistory(db, items[n].id)[1].new_value = msgs[n].content
           /\ \A m, n \in DOMAIN items : m # n => items[m].id # items[n].id

\* C19: every message a raw add (skip_extraction, store_mode "vector") stores gets
\* a record under an id never used before, holding the message's text, and one ADD
\* history entry, whatever is already stored: the records there were stay as they
\* are, one with the same text included. A raw add that returns normally has made
\* no language-model call and exactly one ADD record and one ADD history entry per
\* message, and returns them as ADD items with pairwise distinct ids.
C19_RawAddAlwaysAdds ==
    [][/\ (pc = "dispatched" /\ vpc = "raw" /\ applied' = applied + 1)
          => LET content == Normalize(args.messages)[applied + 1].content
                 id == nextId'
             IN  /\ ~vector_store[id].present /\ GetHistory(db, id) = <<>>
                 /\ vector_store'[id].present
                 /\ vector_store'[id].payload.data = content
                 /\ \A i \in Ids \ {id} : vector_store'[i] = vector_store[i]
                 /\ IsPrefix(db, db') /\ Len(db') = Len(db) + 1
                 /\ Last(db').memory_id = id /\ Last(db').event = "ADD"
                 /\ Last(db').new_value = content
                 /\ Last(returned_memories').id = id
                 /\ Last(returned_memories').event = "ADD"
       /\ RawAddDone']_vars

C19_Witness ==
    /\ pc = "returned" /\ RawAdd /\ result.status = "ok"
    /\ Len(result.value.results.items) = 1
    /\ \E i, j \in Ids :
          /\ i # j /\ vector_store[i].present /\ vector_store[j].present
          /\ vector_store[i].payload.data = vector_store[j].payload.data
          /\ vector_store[i].payload.data = Normalize(args.messages)[1].content
          /\ result.value.results.items[1].id = j
          /\ Len(GetHistory(db, i)) = 1 /\ Len(GetHistory(db, j)) = 1

NoneDecision == Decision("NONE", Missing, "t1", Missing)

\* the decisions applied so far in the running (or last) call were all NONE
OnlyNone == notes \cap DecisionNotes = {"decided_NONE"}

\* C20: applying a NONE decision leaves the vector index, the history ledger, the
\* log of index writes, the provider calls made, the clock, the ids used and the
\* list of returned memories as they were; a step that changes the index or the
\* ledger belongs to a call with a traced write; and an add whose applied decisions
\* were all NONE returns normally with an empty result list and without a single
\* write to the index or the ledger during the call.
C20_NoneChangesNothing ==
    [][/\ (\E fail \in Fails : ApplyDecision(NoneDecision, fail))
          => UNCHANGED <<vector_store, db, vlog, vtrace, clock, nextId,
                         returned_memories, metadata>>
       /\ (vector_store' # vector_store \/ db' # db)
          => \E n \in DOMAIN vtrace' : vtrace'[n].call \in Writes
       /\ (pc = "dispatched" /\ pc' = "returned" /\ args.op = "add" /\ OnlyNone)
          => /\ result'.status = "ok"
             /\ result'.value.results.items = <<>>
             /\ \A n \in DOMAIN vtrace' : vtrace'[n].call \notin Writes
             /\ UNCHANGED <<vector_store, db, vlog>>]_vars

C20_Witness ==
    /\ AddReturned /\ OnlyNone /\ result.status = "ok"
    /\ result.value.results.items = <<>>
    /\ \E i \in Ids : vector_store[i].present
    /\ Calls(vtrace, "llm.generate_response") = 2

\* what get(id) answers right after an add that returned normally, for each record
\* the add reports as added: the text, the scope the add was given and the
\* created_at of the record and of its ADD history entry
AddRoundTrip ==
    (AddReturned /\ result.status = "ok")
    => \A n \in DOMAIN result.value.results.items :
         LET item == result.value.results.items[n]
             got == GetItem(vector_store, item.id)
         IN  item.event = "ADD"
             => /\ vector_store[item.id].present
                /\ got.memory = item.memory
                /\ \A k \in ScopeKeys : got[k] = SuppliedScope[k]
                /\ got.created_at = vector_store[item.id].payload.created_at
                /\ got.created_at = GetHistory(db, item.id)[1].created_at
                /\ GetHistory(db, item.id)[1].event = "ADD"

\* C21: get of a stored id answers the record's data, scope keys and timestamps as
\* the vector index holds them and changes nothing; and when an add returns
\* normally, that answer has, for every record the add created, the text written by
\* the add, the owner-scope keys and values supplied to the add, and the created_at
\* written to the vector index and to the ADD history entry.
C21_GetAfterAddRoundTrips ==
    [][/\ AddRoundTrip'
       /\ (pc = "idle" /\ args'.op = "get" /\ vector_store[args'.memory_id].present)
          => /\ result' = Returned(PyList(<<GetItem(vector_store, args'.memory_id)>>))
             /\ UNCHANGED <<vector_store, db>>]_vars

\* C22: in every reachable state, every record of the vector index has the hash
\* that is the digest of its data and the vector that is the embedding of its data.
C22_HashAndEmbeddingFollowData ==
    \A i \in Ids :
        vector_store[i].present
        => /\ vector_store[i].payload.hash = Md5(vector_store[i].payload.data)
           /\ vector_store[i].vector = Embed(vector_store[i].payload.data)

C22_Witness ==
    \E i, j \in Ids :
        /\ i # j /\ vector_store[i].present /\ vector_store[j].present
        /\ WasUpdated(i)
        /\ vector_store[i].payload.data # GetHistory(db, i)[1].new_value
        /\ vector_store[i].payload.hash = Md5(Last(GetHistory(db, i)).new_value)
        /\ ~WasUpdated(j)

\* positions of the calls of one name in the trace of the vector unit
Positions(names) == {n \in DOMAIN vtrace : vtrace[n].call \in names}

LlmCalls(prompt) ==
    {n \in DOMAIN vtrace : vtrace[n].call = "llm.generate_response" /\ vtrace[n].arg = prompt}

ExtractionCalls == LlmCalls("extract")
PlannerCalls == LlmCalls("plan")

\* C23: in an extraction-enabled add, at every moment of the call and at its return,
\* the provider calls of the vector path are in this order: the extraction call is
\* the first call and the only one of its kind; every embedding and search of the
\* candidate retrieval comes before the planner call, and when the planner call is
\* made one search per extracted fact has been made; every read or write of a
\* record and every history append comes after the planner call; and there is at
\* most one planner call, exactly one once the path has got past planning.
C23_VectorPathIsSequential ==
    (pc # "idle" /\ args.op = "add" /\ ~args.skip_extraction)
    => /\ Cardinality(ExtractionCalls) <= 1 /\ Cardinality(PlannerCalls) <= 1
       /\ vtrace # <<>> => ExtractionCalls = {1}
       /\ \A n \in Positions({"vs.search"}), m \in PlannerCalls : n < m
       /\ \A n \in Positions({"vs.search"}) : vtrace[n - 1].call = "embed"
       /\ \A n \in Positions(Writes \cup {"vs.get"}) : \E m \in PlannerCalls : m < n
       /\ \A n \in Positions({"embed"}) :
             (\E m \in PlannerCalls : m < n) \/ vtrace[n + 1].call = "vs.search"
       /\ vpc = "apply" => Calls(vtrace, "vs.search") = Len(new_retrieved_facts)
       /\ (vpc \in {"apply", "done", "raised"} \/ (pc = "returned" /\ vtrace # <<>>))
          => Cardinality(PlannerCalls) = 1

C23_Witness ==
    /\ AddReturned /\ ~args.skip_extraction /\ result.status = "ok"
    /\ Calls(vtrace, "vs.search") = 2
    /\ Calls(vtrace, "vs.update") = 1 /\ Calls(vtrace, "vs.insert") = 1
    /\ PlannerCalls = {6}

\* C24: update(id, data) of an id the vector index does not hold raises, makes no
\* insert, update or delete on the index and no history append, and leaves index and
\* ledger as they were.
C24_UpdateOfAbsentIdRaises ==
    [][(pc = "idle" /\ args'.op = "update" /\ ~vector_store[args'.memory_id].present)
       => /\ result'.status = "raise"
          /\ \A n \in DOMAIN vtrace' : vtrace'[n].call \notin Writes
          /\ UNCHANGED <<vector_store, db, vlog>>]_vars

C24_Witness ==
    /\ pc = "returned" /\ args.op = "update" /\ result.status = "raise" /\ ~failed
    /\ ~vector_store[args.memory_id].present
    /\ Deleted(args.memory_id)
    /\ \E i \in Ids : vector_store[i].present

\* the bullet lines of the memories a search finds, in result order
Bullets(vs, found) == JoinLines([i \in DOMAIN found |-> "- " \o vs[found[i]].payload.data])

\* C25: a /search_formatted request whose search succeeds is answered with status
\* "success" and bullet_points holding one line "- <memory text>" per memory found
\* under agent_id "ordpedia" (and the run_id given), in result order, at most
\* `limit` of them and at most 20 when the request gives no limit; never HTTP 500.
C25_SearchFormattedSucceeds ==
    [][(pc = "idle" /\ args'.op = "search_formatted")
       => LET limit == IF args'.limit # NoLimit THEN args'.limit ELSE FormattedLimit
              flt == [user_id |-> NoVal, agent_id |-> "ordpedia", run_id |-> args'.run_id]
              found == VsSearch(vector_store, Embed(args'.query), limit, flt)
          IN  /\ result'.status = "ok"
              /\ result'.value.status = "success"
              /\ result'.value.bullet_points = Bullets(vector_store, found)]_vars

\* the units add dispatches for a store_mode: vector path, graph path
Dispatches(store_mode) ==
    [vector |-> store_mode \in {"both", "vector"},
     graph |-> store_mode \in {"both", "graph"} /\ enable_graph]

\* C26: an add call that dispatches goes from dispatched to joined and nowhere else.
\* It dispatches the vector unit and the graph unit its store_mode and the engine's
\* graph setting call for; while it is dispatched the caller has no result and no
\* error; a unit that has finished stays finished with the outcome it had; and the
\* step that gives the caller a result or an error is taken when every unit
\* dispatched has finished, and changes no unit.
C26_JoinIsABarrier ==
    [][/\ pc' = "dispatched" => (pc \in {"idle", "dispatched"} /\ result' = NoOut)
       /\ (pc = "idle" /\ pc' = "dispatched")
          => /\ (vpc' # "none") = Dispatches(args'.store_mode).vector
             /\ (gpc' # "none") = Dispatches(args'.store_mode).graph
             /\ vpc' \notin Finished /\ gpc' \notin Finished
       /\ (pc = "dispatched" /\ vpc \in Finished) => (vpc' = vpc /\ vout' = vout) \/ pc' = "idle"
       /\ (pc = "dispatched" /\ gpc \in Finished) => (gpc' = gpc /\ gout' = gout) \/ pc' = "idle"
       /\ (pc = "dispatched" /\ pc' # "dispatched")
          => /\ pc' = "returned"
             /\ vpc \in Finished \cup {"none"} /\ gpc \in Finished \cup {"none"}
             /\ result'.status \in {"ok", "raise"}
             /\ UNCHANGED <<vpc, gpc, vout, gout, vtrace, gtrace, vector_store, db>>]_vars

C26_Witness ==
    /\ AddReturned /\ result.status = "ok"
    /\ vpc = "done" /\ gpc = "done"
    /\ gtrace # <<>> /\ Mutated

\* the writes to the vector index made in the running (or last) call, in order
IndexWrites == SelectSeq(vtrace, LAMBDA c : c.call \in {"vs.insert", "vs.update", "vs.delete"})

\* the event name of a write to the vector index
EventOf(call) ==
    CASE call = "vs.insert" -> "ADD" [] call = "vs.update" -> "UPDATE" [] OTHER -> "DELETE"

\* C27: when an add returns normally (no provider call having failed), its results
\* list is the list of the inserts, updates and deletes the call made on the vector
\* index, in the order made: as many entries as writes, the n-th entry carrying the
\* id and the event of the n-th write.
C27_ResultsReportTheMutations ==
    (AddReturned /\ result.status = "ok" /\ ~failed)
    => LET items == result.value.results.items
       IN  /\ Len(items) = Len(IndexWrites)
           /\ \A n \in DOMAIN items :
                 /\ items[n].id = IndexWrites[n].arg
                 /\ items[n].event = EventOf(IndexWrites[n].call)

\* C28: whatever the interleaving of the concurrent add calls, the identifiers the
\* graph object holds when graph.add is invoked for a call are the identifiers of
\* that call's own scope.
C28_GraphAddSeesOwnScope ==
    \A p \in Procs :
        (calls[p].op = "add_graph" /\ calls[p].pc = "done")
        => calls[p].seen = calls[p].scope

\* every concurrent call has finished
AllFinished == \A p \in Procs : calls[p].pc \in {"idle", "done", "raised"}

\* C29: once every concurrent call has finished, each record agrees with its
\* history: an id with history entries is stored exactly when the last entry of
\* its history is not a DELETE, a stored id has history entries, and the data of a
\* stored record is the new_value of the last entry of its history.
C29_RecordAgreesWithHistory ==
    AllFinished
    => \A i \in Ids :
         LET h == GetHistory(db, i)
         IN  /\ vector_store[i].present => h # <<>>
             /\ h # <<>> => (vector_store[i].present <=> Last(h).event # "DELETE")
             /\ (vector_store[i].present /\ h # <<>>)
                => vector_store[i].payload.data = Last(h).new_value

\* C30: at every moment of every interleaving, the history of each id is a chain:
\* its first entry is an ADD without previous value, and the previous value of every
\* later entry is the new_value of the entry just before it.
C30_HistoryIsAChain ==
    \A i \in Ids :
        LET h == GetHistory(db, i)
        IN  h # <<>>
            => /\ h[1].event = "ADD" /\ h[1].prev_value = NoVal
               /\ \A n \in 2..Len(h) : h[n].prev_value = h[n - 1].new_value

\* the calls of the embedding provider for one text in the running call
EmbedCalls(text) == SelectSeq(vtrace, LAMBDA c : c.call = "embed" /\ c.arg = text)

\* C31: at every moment of an extraction-enabled add, once the facts are extracted,
\* the embedding provider has been called at most once for the text of each
\* extracted fact, however often the fact occurs in the list and whatever decisions
\* carry its text.
C31_FactsAreEmbeddedOnce ==
    (pc = "dispatched" /\ args.op = "add" /\ ~args.skip_extraction)
    => \A n \in DOMAIN new_retrieved_facts : Len(EmbedCalls(new_retrieved_facts[n])) <= 1

\* C32: a direct update(id, data) of an id the vector index does not hold, or with
\* the text the record already has, makes no call to the embedding provider.
C32_UpdateEmbedsOnlyNewText ==
    [][(/\ pc = "idle" /\ args'.op = "update"
        /\ \/ ~vector_store[args'.memory_id].present
           \/ vector_store[args'.memory_id].payload.data = args'.data)
       => \A n \in DOMAIN vtrace' : vtrace'[n].call # "embed"]_vars

\* a stored record that differs from a delete_all call in a dimension the call supplies
OutOfScope(vs, i, a) ==
    /\ vs[i].present
    /\ \E k \in ScopeKeys : a[k] # NoVal /\ vs[i].payload[k] # a[k]

C34_GraphModeLeavesVectorAlone ==
    [][(args'.op = "add" /\ args'.store_mode = "graph" /\ pc' # "idle")
       => /\ vpc' = "none"
          /\ vtrace' = <<>>
          /\ UNCHANGED <<vector_store, db, vlog>>]_vars

C34_Witness ==
    /\ pc = "returned" /\ args.op = "add" /\ args.store_mode = "graph"
    /\ result.status = "ok"
    /\ enable_graph /\ gtrace # <<>>
    /\ Len(db) > 0
    /\ \E i \in Ids : vector_store[i].present

\* the same call on an engine without a graph store: no unit at all is dispatched
C34_WitnessNoGraph ==
    /\ pc = "returned" /\ args.op = "add" /\ args.store_mode = "graph"
    /\ result.status = "ok"
    /\ ~enable_graph /\ gtrace = <<>>
    /\ Len(db) > 0

\* C35: a step that leaves a record stored (a direct update, an UPDATE decision, or
\* any other) keeps the additional metadata attribute the record carried.
C35_UpdateKeepsExtraMetadata ==
    [][\A i \in Ids :
          (/\ ~failed'
           /\ vector_store[i].present /\ vector_store'[i].present
           /\ vector_store[i].payload.extra # EmptyDict.extra)
          => vector_store'[i].payload.extra = vector_store[i].payload.extra]_vars

====
